---- MODULE Spec2Model ----
(***************************************************************************)
(* Import-boundary purity analyzer (src/src/import-boundary-analyzer.ts).  *)
(*                                                                         *)
(* A string is a sequence of one-character strings, so that startsWith,    *)
(* endsWith, includes and the path arithmetic of node:path are computed    *)
(* as the code computes them.  The empty sequence stands for the empty     *)
(* string and for null/undefined: every test the analyzer makes on an      *)
(* optional string is a truthiness test, which treats the three alike.     *)
(***************************************************************************)
EXTENDS Integers, Sequences, FiniteSets, TLC

\* ---------------------------------------------------------------- strings

startsWith(s, p) == Len(p) <= Len(s) /\ SubSeq(s, 1, Len(p)) = p

endsWith(s, p) == Len(p) <= Len(s) /\ SubSeq(s, Len(s) - Len(p) + 1, Len(s)) = p

includes(s, p) == \E i \in 0..(Len(s) - Len(p)) : SubSeq(s, i + 1, i + Len(p)) = p

slice(s, from) == SubSeq(s, from + 1, Len(s))

\* The index of the first occurrence of character c in s, 0 when there is none.
RECURSIVE indexOf(_, _, _)
indexOf(s, c, i) ==
    IF i > Len(s) THEN 0
    ELSE IF s[i] = c THEN i
    ELSE indexOf(s, c, i + 1)

\* String.prototype.replace(/\*/g, by)
RECURSIVE replaceStar(_, _)
replaceStar(s, by) ==
    IF s = <<>> THEN <<>>
    ELSE (IF Head(s) = "*" THEN by ELSE <<Head(s)>>) \o replaceStar(Tail(s), by)

\* -------------------------------------------------------- node:path (POSIX)

\* The working directory of the process, which path.resolve falls back to
\* when none of its arguments is absolute.
cwd == <<"/">>

isAbsolute(p) == Len(p) > 0 /\ p[1] = "/"

\* The segments of s between its separators.
RECURSIVE splitPath(_, _, _)
splitPath(s, i, cur) ==
    IF i > Len(s) THEN <<cur>>
    ELSE IF s[i] = "/" THEN <<cur>> \o splitPath(s, i + 1, <<>>)
    ELSE splitPath(s, i + 1, Append(cur, s[i]))

RECURSIVE joinPath(_)
joinPath(segs) ==
    IF segs = <<>> THEN <<>>
    ELSE IF Len(segs) = 1 THEN segs[1]
    ELSE segs[1] \o <<"/">> \o joinPath(Tail(segs))

\* normalizeString of node:path: drops empty and "." segments, and lets ".."
\* remove the segment before it.
RECURSIVE normalizeString(_, _, _, _)
normalizeString(segs, i, out, allowAboveRoot) ==
    IF i > Len(segs) THEN out
    ELSE IF segs[i] = <<>> \/ segs[i] = <<".">>
        THEN normalizeString(segs, i + 1, out, allowAboveRoot)
    ELSE IF segs[i] = <<".", ".">>
        THEN IF Len(out) > 0 /\ out[Len(out)] # <<".", ".">>
                THEN normalizeString(segs, i + 1, SubSeq(out, 1, Len(out) - 1), allowAboveRoot)
             ELSE IF allowAboveRoot
                THEN normalizeString(segs, i + 1, Append(out, <<".", ".">>), allowAboveRoot)
             ELSE normalizeString(segs, i + 1, out, allowAboveRoot)
    ELSE normalizeString(segs, i + 1, Append(out, segs[i]), allowAboveRoot)

\* path.resolve joins its arguments from the right until the path is absolute.
RECURSIVE resolveJoin(_, _, _)
resolveJoin(paths, i, acc) ==
    IF i = 0 \/ isAbsolute(acc) THEN acc
    ELSE IF paths[i] = <<>> THEN resolveJoin(paths, i - 1, acc)
    ELSE resolveJoin(paths, i - 1, paths[i] \o <<"/">> \o acc)

resolve(paths) ==
    LET joined == resolveJoin(paths, Len(paths), <<>>)
        full   == IF isAbsolute(joined) THEN joined ELSE cwd \o <<"/">> \o joined
    IN  <<"/">> \o joinPath(normalizeString(splitPath(full, 1, <<>>), 1, <<>>, FALSE))

\* The index of the separator that ends the directory part of p (trailing
\* separators skipped), 0 when there is none.
RECURSIVE dirnameEnd(_, _, _)
dirnameEnd(p, i, matchedSlash) ==
    IF i < 2 THEN 0
    ELSE IF p[i] = "/"
        THEN IF matchedSlash THEN dirnameEnd(p, i - 1, TRUE) ELSE i
    ELSE dirnameEnd(p, i - 1, FALSE)

dirname(p) ==
    IF p = <<>> THEN <<".">>
    ELSE LET end == dirnameEnd(p, Len(p), TRUE)
         IN  IF end = 0 THEN (IF isAbsolute(p) THEN <<"/">> ELSE <<".">>)
             ELSE IF isAbsolute(p) /\ end = 2 THEN <<"/", "/">>
             ELSE SubSeq(p, 1, end - 1)

\* The length of the longest common prefix of two segment lists.
RECURSIVE commonLen(_, _, _)
commonLen(a, b, k) ==
    IF k < Len(a) /\ k < Len(b) /\ a[k + 1] = b[k + 1]
        THEN commonLen(a, b, k + 1)
    ELSE k

\* path.relative: climb out of what is left of `from`, then descend into `to`.
relative(from, to) ==
    LET f  == normalizeString(splitPath(resolve(<<from>>), 1, <<>>), 1, <<>>, FALSE)
        t  == normalizeString(splitPath(resolve(<<to>>), 1, <<>>), 1, <<>>, FALSE)
        k  == commonLen(f, t, 0)
        up == [i \in 1..(Len(f) - k) |-> <<".", ".">>]
    IN  joinPath(up \o SubSeq(t, k + 1, Len(t)))

\* ------------------------------------------------------- alias resolution

\* `{}`: no tsconfig.json, or one that cannot be read.
EmptyTsConfig == [baseUrl |-> <<>>, paths |-> <<>>]

\* loadTsConfig: the baseUrl and paths of the project's tsconfig.json;
\* tsconfigJson is <<>> when the file is absent or unreadable.
loadTsConfig(tsconfigJson) ==
    IF tsconfigJson = <<>> THEN EmptyTsConfig
    ELSE [baseUrl |-> tsconfigJson[1].baseUrl, paths |-> tsconfigJson[1].paths]

\* The expression new RegExp("^" + pattern.replace(/\*/g, "(.+)") + "$") held
\* against the text from position j on, the pattern read from position i on.
\* The pattern is not escaped, so its characters keep their meaning in an
\* expression: '*' has become a group of one or more characters, '.' stands
\* for any one character, '$' asserts the end of the text, any other
\* character of the patterns modelled here stands for itself.
RECURSIVE regexMatches(_, _, _, _)
regexMatches(pattern, i, text, j) ==
    IF i > Len(pattern) THEN j > Len(text)
    ELSE CASE pattern[i] = "*" ->
                \E n \in 1..(Len(text) - j + 1) : regexMatches(pattern, i + 1, text, j + n)
           [] pattern[i] = "$" ->
                j > Len(text) /\ regexMatches(pattern, i + 1, text, j)
           [] pattern[i] = "." ->
                j <= Len(text) /\ regexMatches(pattern, i + 1, text, j + 1)
           [] OTHER ->
                /\ j <= Len(text)
                /\ text[j] = pattern[i]
                /\ regexMatches(pattern, i + 1, text, j + 1)

\* importPath.match(regex) is not null.
aliasMatches(importPath, pattern) == regexMatches(pattern, 1, importPath, 1)

\* match[1] || "": what the first group captured, the group being greedy;
\* "" when the pattern has no wildcard.
aliasCapture(importPath, pattern) ==
    LET star == indexOf(pattern, "*", 1)
        fits(n) == regexMatches(pattern, star + 1, importPath, star + n)
    IN  IF star = 0 THEN <<>>
        ELSE LET n == CHOOSE n \in 1..(Len(importPath) - star + 1) :
                          /\ fits(n)
                          /\ \A m \in (n + 1)..(Len(importPath) - star + 1) : ~fits(m)
             IN  SubSeq(importPath, star, star + n - 1)

\* The loop over Object.entries(tsConfig.paths): the first pattern that
\* matches and has a non-empty first replacement decides.
RECURSIVE resolveAliasFrom(_, _, _, _)
resolveAliasFrom(importPath, tsConfig, projectRoot, i) ==
    IF i > Len(tsConfig.paths) THEN <<>>
    ELSE LET entry == tsConfig.paths[i]
             replacement == IF entry.replacements = <<>> THEN <<>>
                            ELSE entry.replacements[1]
         IN  IF aliasMatches(importPath, entry.pattern) /\ replacement # <<>>
                THEN LET resolved == replaceStar(replacement,
                                        aliasCapture(importPath, entry.pattern))
                         base == IF tsConfig.baseUrl # <<>> THEN tsConfig.baseUrl
                                 ELSE projectRoot
                     IN  resolve(<<projectRoot, base, resolved>>)
             ELSE resolveAliasFrom(importPath, tsConfig, projectRoot, i + 1)

resolvePathAlias(importPath, tsConfig, projectRoot, currentFileDir) ==
    LET aliased == resolveAliasFrom(importPath, tsConfig, projectRoot, 1)
    IN  IF aliased # <<>> THEN aliased
        ELSE IF startsWith(importPath, <<"/">>)
            THEN resolve(<<projectRoot, slice(importPath, 1)>>)
        ELSE IF startsWith(importPath, <<".">>)
            THEN resolve(<<currentFileDir, importPath>>)
        ELSE <<>>

\* ------------------------------------------------------ import extraction

\* A file's text is its sequence of lines.  A line is an import of a module
\* specifier (static, dynamic or require: the analyzer treats the three
\* alike), a line with a fetch( or axios. call, or any other code.
ImportLine(path) == [kind |-> "import", path |-> path]
FetchLine == [kind |-> "fetch", path |-> <<>>]
AxiosLine == [kind |-> "axios", path |-> <<>>]
CodeLine == [kind |-> "code", path |-> <<>>]
\* Text on which ts.createSourceFile, or the walk of extractImports, throws.
BrokenLine == [kind |-> "broken", path |-> <<>>]

parseFails(content) == \E i \in 1..Len(content) : content[i].kind = "broken"

\* extractImports: the import edges of the text, each with its line.
RECURSIVE extractImportsFrom(_, _)
extractImportsFrom(content, i) ==
    IF i > Len(content) THEN <<>>
    ELSE (IF content[i].kind = "import"
             THEN <<[path |-> content[i].path, line |-> i]>>
             ELSE <<>>) \o extractImportsFrom(content, i + 1)

\* Mutant of extractImports: the import edges of a text are returned also
\* when the parse of the text throws.
extractImportsAnyway(content) == extractImportsFrom(content, 1)

\* createSourceFile and extractImports, inside the try block of their two
\* callers: when the parse throws, the caller's catch leaves it with the
\* reasons it had, none, which is what an empty list of edges gives.
extractImports(content) ==
    IF parseFails(content) THEN <<>> ELSE extractImportsFrom(content, 1)

\* ---------------------------------------------------------- the file map

\* fileContents is a Map: a sequence of entries in insertion order, with
\* distinct keys.
mapHas(fileContents, filePath) ==
    \E i \in 1..Len(fileContents) : fileContents[i].path = filePath

\* Map.get; <<>> (the empty text) also stands for undefined: the callers
\* only test `!content`.
mapGet(fileContents, filePath) ==
    IF mapHas(fileContents, filePath)
        THEN LET i == CHOOSE j \in 1..Len(fileContents) : fileContents[j].path = filePath
             IN  fileContents[i].content
    ELSE <<>>

\* -------------------------------------------------------- purity checking

\* Mutant of checkImportAgainstMatchers: every matcher matches by prefix.
checkImportAgainstMatchersByPrefix(importPath, matchers) ==
    \E i \in 1..Len(matchers) : startsWith(importPath, matchers[i])

checkImportAgainstMatchers(importPath, matchers) ==
    \E i \in 1..Len(matchers) :
        IF endsWith(matchers[i], <<"/">>)
            THEN startsWith(importPath, matchers[i])
        ELSE importPath = matchers[i] \/ startsWith(importPath, matchers[i] \o <<"/">>)

isBusinessDir(resolvedPath, businessDirMatchers) ==
    /\ resolvedPath # <<>>
    /\ \E i \in 1..Len(businessDirMatchers) : includes(resolvedPath, businessDirMatchers[i])

\* Mutant of classifyImport: no `continue` after a match, so every rule that
\* applies to the edge yields its reason.
classifyImportEveryRule(imp, tsConfig, projectRoot, purityConfig, currentFileDir) ==
    LET resolved == resolvePathAlias(imp.path, tsConfig, projectRoot, currentFileDir)
    IN  (IF checkImportAgainstMatchers(imp.path, purityConfig.forbiddenImportMatchers)
            THEN <<[type |-> "forbidden-import", importPath |-> imp.path,
                    resolvedPath |-> resolved, line |-> imp.line,
                    message |-> "Forbidden import"]>>
         ELSE <<>>)
        \o (IF checkImportAgainstMatchers(imp.path, purityConfig.nextServerImportMatchers)
            THEN <<[type |-> "server-api", importPath |-> imp.path,
                    resolvedPath |-> <<>>, line |-> imp.line,
                    message |-> "Next.js server API"]>>
         ELSE <<>>)
        \o (IF isBusinessDir(resolved, purityConfig.businessDirMatchers)
            THEN <<[type |-> "forbidden-import", importPath |-> imp.path,
                    resolvedPath |-> resolved, line |-> imp.line,
                    message |-> "Business logic zone import"]>>
         ELSE <<>>)

\* The body of the loop of analyzeFileImports: the reasons (none or one) of
\* one import edge.
classifyImport(imp, tsConfig, projectRoot, purityConfig, currentFileDir) ==
    LET resolved == resolvePathAlias(imp.path, tsConfig, projectRoot, currentFileDir)
    IN  IF checkImportAgainstMatchers(imp.path, purityConfig.forbiddenImportMatchers)
            THEN <<[type |-> "forbidden-import", importPath |-> imp.path,
                    resolvedPath |-> resolved, line |-> imp.line,
                    message |-> "Forbidden import"]>>
        ELSE IF checkImportAgainstMatchers(imp.path, purityConfig.nextServerImportMatchers)
            THEN <<[type |-> "server-api", importPath |-> imp.path,
                    resolvedPath |-> <<>>, line |-> imp.line,
                    message |-> "Next.js server API"]>>
        ELSE IF isBusinessDir(resolved, purityConfig.businessDirMatchers)
            THEN <<[type |-> "forbidden-import", importPath |-> imp.path,
                    resolvedPath |-> resolved, line |-> imp.line,
                    message |-> "Business logic zone import"]>>
        ELSE <<>>

RECURSIVE classifyImports(_, _, _, _, _)
classifyImports(imports, tsConfig, projectRoot, purityConfig, currentFileDir) ==
    IF imports = <<>> THEN <<>>
    ELSE classifyImport(Head(imports), tsConfig, projectRoot, purityConfig, currentFileDir)
         \o classifyImports(Tail(imports), tsConfig, projectRoot, purityConfig, currentFileDir)

\* The direct reasons of a file.  The visited set is received and not used.
analyzeFileImports(filePath, fileContents, projectRoot, tsConfig, purityConfig, visited) ==
    LET content == mapGet(fileContents, filePath)
    IN  IF content = <<>> THEN <<>>
        ELSE classifyImports(extractImports(content), tsConfig, projectRoot,
                             purityConfig, dirname(filePath))

\* ----------------------------------------------------- transitive checking

VARIABLES
    files,          \* the Map of absolute path -> text handed to analyzeImportBoundaries
    disk,           \* the absolute paths that exist in the file system (existsSync)
    root,           \* the project root handed to analyzeImportBoundaries
    tsconfigJson,   \* <<>> or <<[baseUrl, paths]>>: the project's tsconfig.json
    config,         \* the DsCoverageConfig handed to analyzeImportBoundaries
    aliases,        \* the alias table loadTsConfig returned
    reports,        \* the Record of relative path -> ImportBoundaryReport being built
    idx,            \* position of the for-of loop of analyzeImportBoundaries
    pc,             \* "start", "loop", "transitive" or "done"
    seen,           \* the visited set of the analyzeFile call in progress
    pending,        \* the import edges the loop of checkTransitiveImports has yet to inspect
    reasons,        \* the reasons of the analyzeFile call in progress
    scanDir,        \* the scan directory handed to analyzeBusinessLogic
    blReports,      \* the Record of relative path -> BusinessLogicReport being built
    blIdx,          \* position of the for-of loop of analyzeBusinessLogic
    blPc            \* "start", "loop" or "done": where analyzeBusinessLogic is

\* What analyzeBusinessLogic works on besides the file map and the config.
blVars == <<scanDir, blReports, blIdx, blPc>>

vars == <<files, disk, root, tsconfigJson, config, aliases,
          reports, idx, pc, seen, pending, reasons, blVars>>

existsSync(path) == path \in disk

extensions == <<<<".", "t", "s">>, <<".", "t", "s", "x">>, <<".", "j", "s">>, <<".", "j", "s", "x">>>>

\* Mutant of findFile: a candidate is taken when it is loaded, whether or
\* not it exists on the disk.
RECURSIVE findFileLoaded(_, _, _)
findFileLoaded(resolved, fileContents, i) ==
    IF i > Len(extensions) THEN <<>>
    ELSE LET candidate == IF endsWith(resolved, extensions[i]) THEN resolved
                          ELSE resolved \o extensions[i]
         IN  IF mapHas(fileContents, candidate) THEN candidate
             ELSE findFileLoaded(resolved, fileContents, i + 1)

\* The extension loop: the first candidate that exists and is loaded, <<>>
\* when there is none.
RECURSIVE findFile(_, _, _)
findFile(resolved, fileContents, i) ==
    IF i > Len(extensions) THEN <<>>
    ELSE LET candidate == IF endsWith(resolved, extensions[i]) THEN resolved
                          ELSE resolved \o extensions[i]
         IN  IF existsSync(candidate) /\ mapHas(fileContents, candidate) THEN candidate
             ELSE findFile(resolved, fileContents, i + 1)

\* Mutant of dependencyReasons: a dependency also counts as impure when a
\* file it relatively imports has direct reasons (attribution over two hops).
dependencyReasonsDeep(foundFile, fileContents, projectRoot, tsConfig, purityConfig, visited) ==
    analyzeFileImports(foundFile, fileContents, projectRoot, tsConfig, purityConfig, visited)
    \o LET imports == extractImports(mapGet(fileContents, foundFile))
           hop(k) == LET r == resolvePathAlias(imports[k].path, tsConfig, projectRoot, dirname(foundFile))
                         f == IF r = <<>> THEN <<>> ELSE findFile(r, fileContents, 1)
                     IN  IF startsWith(imports[k].path, <<".">>) /\ f # <<>>
                            THEN analyzeFileImports(f, fileContents, projectRoot, tsConfig, purityConfig, visited)
                         ELSE <<>>
       IN  IF \E k \in 1..Len(imports) : hop(k) # <<>> THEN <<"deep">> ELSE <<>>

\* Mutant of dependencyReasons: the reasons are taken from the report already
\* stored for the dependency, none when it has not been analysed yet.
dependencyReasonsStored(foundFile, fileContents, projectRoot, tsConfig, purityConfig, visited) ==
    IF relative(projectRoot, foundFile) \in DOMAIN reports
        THEN SelectSeq(reports[relative(projectRoot, foundFile)].reasons,
                       LAMBDA r : r.type \in {"forbidden-import", "server-api"})
    ELSE <<>>

\* Mutant of dependencyReasons: a fetch( or axios. idiom in the text of the
\* dependency counts as a reason too.
dependencyReasonsWithIdioms(foundFile, fileContents, projectRoot, tsConfig, purityConfig, visited) ==
    analyzeFileImports(foundFile, fileContents, projectRoot, tsConfig, purityConfig, visited)
    \o (IF \E i \in 1..Len(mapGet(fileContents, foundFile)) :
              mapGet(fileContents, foundFile)[i].kind \in {"fetch", "axios"}
           THEN <<"data-fetching">> ELSE <<>>)

\* What decides whether a dependency is impure: its own direct reasons.
dependencyReasons(foundFile, fileContents, projectRoot, tsConfig, purityConfig, visited) ==
    analyzeFileImports(foundFile, fileContents, projectRoot, tsConfig, purityConfig, visited)

\* Mutant of transitiveReasonsOf: every edge that resolves is inspected,
\* whatever its specifier starts with.
transitiveReasonsOfAnyEdge(imp, filePath, fileContents, projectRoot, tsConfig, purityConfig, visited) ==
    LET resolved == resolvePathAlias(imp.path, tsConfig, projectRoot, dirname(filePath))
        foundFile == IF resolved = <<>> THEN <<>> ELSE findFile(resolved, fileContents, 1)
    IN  IF foundFile = <<>> THEN <<>>
        ELSE IF dependencyReasons(foundFile, fileContents, projectRoot, tsConfig, purityConfig, visited) # <<>>
           THEN <<[type |-> "transitive", importPath |-> imp.path,
                   resolvedPath |-> foundFile, line |-> 0,
                   message |-> "Transitive dependency"]>>
        ELSE <<>>

\* The body of the loop of checkTransitiveImports: the reasons (none or one)
\* that one import edge of the analysed file contributes.
transitiveReasonsOf(imp, filePath, fileContents, projectRoot, tsConfig, purityConfig, visited) ==
    IF ~startsWith(imp.path, <<".">>) THEN <<>>
    ELSE LET resolved == resolvePathAlias(imp.path, tsConfig, projectRoot, dirname(filePath))
             foundFile == IF resolved = <<>> THEN <<>> ELSE findFile(resolved, fileContents, 1)
         IN  IF foundFile = <<>> THEN <<>>
             ELSE IF dependencyReasons(foundFile, fileContents, projectRoot, tsConfig, purityConfig, visited) # <<>>
                THEN <<[type |-> "transitive", importPath |-> imp.path,
                        resolvedPath |-> foundFile, line |-> 0,
                        message |-> "Transitive dependency"]>>
             ELSE <<>>

\* Mutant of remainingImports: the loop descends into the edges of the
\* dependency it found, without consulting the visited set.
remainingImportsDeep(edges, filePath, fileContents, projectRoot, tsConfig) ==
    LET resolved == resolvePathAlias(Head(edges).path, tsConfig, projectRoot, dirname(filePath))
        foundFile == IF resolved = <<>> \/ ~startsWith(Head(edges).path, <<".">>) THEN <<>>
                     ELSE findFile(resolved, fileContents, 1)
    IN  IF foundFile = <<>> THEN Tail(edges)
        ELSE Tail(edges) \o extractImports(mapGet(fileContents, foundFile))

\* The import edges the loop goes on to after the one at the head: the rest
\* of the analysed file's own edges, never those of a dependency.
remainingImports(edges, filePath, fileContents, projectRoot, tsConfig) == Tail(edges)

RECURSIVE transitiveLoop(_, _, _, _, _, _, _)
transitiveLoop(edges, filePath, fileContents, projectRoot, tsConfig, purityConfig, visited) ==
    IF edges = <<>> THEN <<>>
    ELSE transitiveReasonsOf(Head(edges), filePath, fileContents, projectRoot, tsConfig, purityConfig, visited)
         \o transitiveLoop(remainingImports(edges, filePath, fileContents, projectRoot, tsConfig),
                           filePath, fileContents, projectRoot, tsConfig, purityConfig, visited)

checkTransitiveImports(filePath, fileContents, projectRoot, tsConfig, purityConfig, visited) ==
    IF filePath \in visited THEN <<>>
    ELSE LET content == mapGet(fileContents, filePath)
         IN  IF content = <<>> THEN <<>>
             ELSE transitiveLoop(extractImports(content), filePath, fileContents, projectRoot,
                                 tsConfig, purityConfig, visited \cup {filePath})

\* ------------------------------------------------------------ file analysis

ForbiddenImportWeight == 30
ServerApiWeight == 25
TransitiveWeight == 15
DataFetchingWeight == 10
MaxScore == 100

\* Mutant of reasonWeight: the data-fetching case left out of the switch.
reasonWeightNoFetch(reason) ==
    CASE reason.type = "forbidden-import" -> ForbiddenImportWeight
      [] reason.type = "server-api" -> ServerApiWeight
      [] reason.type = "transitive" -> TransitiveWeight
      [] OTHER -> 0

\* The switch of the score loop.
reasonWeight(reason) ==
    CASE reason.type = "forbidden-import" -> ForbiddenImportWeight
      [] reason.type = "server-api" -> ServerApiWeight
      [] reason.type = "transitive" -> TransitiveWeight
      [] reason.type = "data-fetching" -> DataFetchingWeight
      [] OTHER -> 0

RECURSIVE sumWeights(_)
sumWeights(rs) == IF rs = <<>> THEN 0 ELSE reasonWeight(Head(rs)) + sumWeights(Tail(rs))

min(a, b) == IF a < b THEN a ELSE b

\* Mutant of calculateScore: the sum without Math.min.
calculateScoreUnclamped(rs) == sumWeights(rs)

\* The score loop and its clamp.
calculateScore(rs) == min(MaxScore, sumWeights(rs))

\* Mutant of isUiCandidate: every file taken for a UI candidate.
isUiCandidateAny(relativePath, purityConfig) == TRUE

isUiCandidate(relativePath, purityConfig) ==
    \E i \in 1..Len(purityConfig.uiCandidateDirs) :
        \/ startsWith(relativePath, purityConfig.uiCandidateDirs[i])
        \/ startsWith(relativePath, purityConfig.uiCandidateDirs[i] \o <<"/">>)

\* The two expressions of the data-fetching probe, by the idiom they match:
\* /\bfetch\s*\(/ and /\baxios\./.
dataFetchingPatterns == <<"fetch", "axios">>

\* pattern.test(content) for an expression of the probe.
idiomTest(content, pattern) == \E i \in 1..Len(content) : content[i].kind = pattern

dataFetchingReason ==
    [type |-> "data-fetching", importPath |-> <<>>, resolvedPath |-> <<>>,
     line |-> 0, message |-> "Data fetching detected (fetch/axios)"]

\* The loop over the expressions from the i-th on: the first that matches
\* pushes the reason and breaks.
RECURSIVE dataFetchingFrom(_, _)
dataFetchingFrom(content, i) ==
    IF i > Len(dataFetchingPatterns) THEN <<>>
    ELSE IF idiomTest(content, dataFetchingPatterns[i]) THEN <<dataFetchingReason>>
    ELSE dataFetchingFrom(content, i + 1)

\* Mutant of dataFetchingReasons: no break, so each expression that matches
\* pushes a reason.
dataFetchingReasonsNoBreak(content) ==
    (IF idiomTest(content, dataFetchingPatterns[1]) THEN <<dataFetchingReason>> ELSE <<>>)
    \o (IF idiomTest(content, dataFetchingPatterns[2]) THEN <<dataFetchingReason>> ELSE <<>>)

\* The data-fetching probe: one reason when fetch( or axios. occurs in the text.
dataFetchingReasons(content) == dataFetchingFrom(content, 1)

makeReport(relativePath, rs) ==
    LET score == calculateScore(rs)
    IN  [path |-> relativePath, isUiCandidate |-> TRUE,
         purity |-> IF score > 0 THEN "impure" ELSE "pure",
         score |-> score, reasons |-> rs]

\* Mutant of runsTransitiveCheck: the transitive check only for a file
\* without direct reasons.
runsTransitiveCheckIfClean(directReasons) == directReasons = <<>>

\* Whether analyzeFile goes on to checkTransitiveImports after the direct
\* check: always, whatever the direct reasons.
runsTransitiveCheck(directReasons) == TRUE

\* The reasons of a file in the order analyzeFile collects them.
collectReasons(filePath, fileContents, projectRoot, tsConfig, purityConfig) ==
    LET directReasons == analyzeFileImports(filePath, fileContents, projectRoot,
                                            tsConfig, purityConfig, {})
    IN  directReasons
        \o (IF runsTransitiveCheck(directReasons)
               THEN checkTransitiveImports(filePath, fileContents, projectRoot,
                                           tsConfig, purityConfig, {})
               ELSE <<>>)
        \o dataFetchingReasons(mapGet(fileContents, filePath))

\* analyzeFile as a function of its arguments: <<>> for null, else <<report>>.
analyzeFile(filePath, relativePath, fileContents, projectRoot, tsConfig, purityConfig) ==
    IF ~isUiCandidate(relativePath, purityConfig) THEN <<>>
    ELSE IF mapGet(fileContents, filePath) = <<>> THEN <<>>
    ELSE <<makeReport(relativePath, collectReasons(filePath, fileContents, projectRoot, tsConfig, purityConfig))>>

\* ------------------------------------------------------------ public API

emptyReports == [k \in {} |-> {}]

putReport(rs, relativePath, report) ==
    [k \in (DOMAIN rs) \cup {relativePath} |->
        IF k = relativePath THEN report ELSE rs[k]]

\* Mutant of Begin: the enabled check left out.
BeginWhateverEnabled ==
    /\ pc = "start"
    /\ aliases' = loadTsConfig(tsconfigJson)
    /\ pc' = "loop"
    /\ UNCHANGED <<files, disk, root, tsconfigJson, config, reports, idx, seen,
                   pending, reasons>>
    /\ UNCHANGED blVars

\* analyzeImportBoundaries up to its loop: the enabled check and loadTsConfig.
Begin ==
    /\ pc = "start"
    /\ IF config.purity.enabled
          THEN /\ aliases' = loadTsConfig(tsconfigJson)
               /\ pc' = "loop"
          ELSE /\ aliases' = aliases
               /\ pc' = "done"
    /\ UNCHANGED <<files, disk, root, tsconfigJson, config, reports, idx, seen,
                   pending, reasons>>
    /\ UNCHANGED blVars

\* One turn of the for-of loop enters analyzeFile: a file that is no UI
\* candidate or has no text yields null; otherwise the direct reasons are
\* taken and checkTransitiveImports starts on the file's import edges, with
\* the file itself put in the fresh visited set.
EnterFile ==
    /\ pc = "loop"
    /\ idx <= Len(files)
    /\ LET filePath == files[idx].path
           relativePath == relative(root, filePath)
           content == mapGet(files, filePath)
       IN  IF ~isUiCandidate(relativePath, config.purity) \/ content = <<>>
              THEN /\ idx' = idx + 1
                   /\ UNCHANGED <<pc, seen, pending, reasons>>
              ELSE LET directReasons == analyzeFileImports(filePath, files, root,
                                                          aliases, config.purity, {})
                   IN  /\ reasons' = directReasons
                       /\ seen' = {filePath}
                       /\ pending' = IF runsTransitiveCheck(directReasons)
                                        THEN extractImports(content)
                                        ELSE <<>>
                       /\ pc' = "transitive"
                       /\ idx' = idx
    /\ UNCHANGED <<files, disk, root, tsconfigJson, config, aliases, reports>>
    /\ UNCHANGED blVars

\* One turn of the loop of checkTransitiveImports.
InspectImport ==
    /\ pc = "transitive"
    /\ pending # <<>>
    /\ LET filePath == files[idx].path
       IN  /\ reasons' = reasons \o transitiveReasonsOf(Head(pending), filePath, files,
                                        root, aliases, config.purity, seen)
           /\ pending' = remainingImports(pending, filePath, files, root, aliases)
    /\ UNCHANGED <<files, disk, root, tsconfigJson, config, aliases, reports, idx,
                   pc, seen>>
    /\ UNCHANGED blVars

\* The rest of analyzeFile: the data-fetching probe, the score and the
\* report, which the loop stores under the relative path.
ScoreFile ==
    /\ pc = "transitive"
    /\ pending = <<>>
    /\ LET filePath == files[idx].path
           relativePath == relative(root, filePath)
           all == reasons \o dataFetchingReasons(mapGet(files, filePath))
       IN  reports' = putReport(reports, relativePath, makeReport(relativePath, all))
    /\ idx' = idx + 1
    /\ pc' = "loop"
    /\ seen' = {}
    /\ reasons' = <<>>
    /\ UNCHANGED <<files, disk, root, tsconfigJson, config, aliases, pending>>
    /\ UNCHANGED blVars

\* The loop is over: the reports are returned.
Finish ==
    /\ pc = "loop"
    /\ idx > Len(files)
    /\ pc' = "done"
    /\ UNCHANGED <<files, disk, root, tsconfigJson, config, aliases, reports, idx,
                   seen, pending, reasons>>
    /\ UNCHANGED blVars

Next == Begin \/ EnterFile \/ InspectImport \/ ScoreFile \/ Finish

\* ------------------------------------------------ the business-logic analyzer

\* Lines of text the business-logic analyzer reacts to, besides FetchLine.
\* The analyzer reads the text with regular expressions; a line is modelled
\* by the idiom written on it, and each expression by the lines it matches.
ApiGetLine == [kind |-> "apiGet", path |-> <<>>]            \* api.get(url)
UseStateLine == [kind |-> "useState", path |-> <<>>]        \* useState(0)
UseEffectLine == [kind |-> "useEffect", path |-> <<>>]      \* useEffect(() => {})
FormDataLine == [kind |-> "formData", path |-> <<>>]        \* new FormData()
SignInLine == [kind |-> "signIn", path |-> <<>>]            \* signIn(credentials)
HandleSubmitLine == [kind |-> "handleSubmit", path |-> <<>>]  \* handleSubmit(event)
\* <element ...>, an opening tag; path holds the element's name.
NativeLine(element) == [kind |-> "native", path |-> element]
\* <input type="file" />
FileInputLine == [kind |-> "fileInput", path |-> <<"i", "n", "p", "u", "t">>]

\* The regular expressions of detectBusinessLogicSignals, by name.
apiPatterns == <<"fetch(", "supabase.", "axios.", "api.", ".get(|.post(|.put(|.delete(">>
fileUploadPatterns == <<"FileReader", "FormData", "type=file", ".upload(", "input type=file">>
authPatterns == <<"signIn(", "signUp(", "signOut(", "getUser(", "getSession(", "auth.">>
formPatterns == <<"onSubmit=", "handleSubmit(", "validate(", "<form">>

\* The expressions that match on a line (each once).
patternsIn(line) ==
    CASE line.kind = "fetch" -> {"fetch("}
      [] line.kind = "axios" -> {"axios."}
      [] line.kind = "apiGet" -> {"api.", ".get(|.post(|.put(|.delete("}
      [] line.kind = "useState" -> {"useState("}
      [] line.kind = "useEffect" -> {"useEffect("}
      [] line.kind = "formData" -> {"FormData"}
      [] line.kind = "fileInput" -> {"type=file", "input type=file"}
      [] line.kind = "signIn" -> {"signIn("}
      [] line.kind = "handleSubmit" -> {"handleSubmit("}
      [] line.kind = "native" /\ startsWith(line.path, <<"f", "o", "r", "m">>) -> {"<form"}
      [] OTHER -> {}

\* content.match(pattern): the number of matches, 0 for null.
matchCount(content, pattern) ==
    Cardinality({i \in 1..Len(content) : pattern \in patternsIn(content[i])})

\* pattern.test(content)
test(content, pattern) == matchCount(content, pattern) > 0

RECURSIVE sumMatches(_, _)
sumMatches(content, patterns) ==
    IF patterns = <<>> THEN 0
    ELSE matchCount(content, Head(patterns)) + sumMatches(content, Tail(patterns))

some(content, patterns) == \E i \in 1..Len(patterns) : test(content, patterns[i])

\* The element whose opening tag the line holds, <<>> when it holds none.
tagOf(line) == IF line.kind \in {"native", "fileInput"} THEN line.path ELSE <<>>

RECURSIVE sumCounts(_)
sumCounts(counts) ==
    IF DOMAIN counts = {} THEN 0
    ELSE LET e == CHOOSE x \in DOMAIN counts : TRUE
         IN  counts[e] + sumCounts([x \in (DOMAIN counts) \ {e} |-> counts[x]])

\* detectNativeHtmlElements: a count per configured element and the total.
detectNativeHtmlElements(content, elements) ==
    LET counts == [e \in {elements[i] : i \in 1..Len(elements)} |->
                      Cardinality({i \in 1..Len(content) : tagOf(content[i]) = e})]
    IN  [counts |-> counts, total |-> sumCounts(counts)]

detectBusinessLogicSignals(content) ==
    [apiCalls |-> sumMatches(content, apiPatterns),
     useStateCount |-> matchCount(content, "useState("),
     useEffectCount |-> matchCount(content, "useEffect("),
     fileUploads |-> some(content, fileUploadPatterns),
     authFlows |-> some(content, authPatterns),
     formHandling |-> some(content, formPatterns)]

\* The weights and limits of assessRisk.
ApiCallWeight == 15
UseStateWeight == 5
UseEffectWeight == 10
FileUploadWeight == 25
AuthFlowWeight == 30
FormHandlingWeight == 10
NativeElementWeight == 2
LargeFileWeight == 10
LargeFileLines == 300
PageLevelScore == 50
CarefulScore == 20
MaxRiskScore == 100

\* The score of assessRisk before it is clamped.
riskPoints(signals, nativeHtmlCount, fileLines) ==
    signals.apiCalls * ApiCallWeight
    + signals.useStateCount * UseStateWeight
    + signals.useEffectCount * UseEffectWeight
    + (IF signals.fileUploads THEN FileUploadWeight ELSE 0)
    + (IF signals.authFlows THEN AuthFlowWeight ELSE 0)
    + (IF signals.formHandling THEN FormHandlingWeight ELSE 0)
    + nativeHtmlCount * NativeElementWeight
    + (IF fileLines > LargeFileLines THEN LargeFileWeight ELSE 0)

\* The signals assessRisk names, in the order it pushes them.
detectedSignals(signals, nativeHtmlCount, fileLines) ==
    (IF signals.apiCalls > 0 THEN <<"API calls">> ELSE <<>>)
    \o (IF signals.useStateCount > 0 THEN <<"useState hooks">> ELSE <<>>)
    \o (IF signals.useEffectCount > 0 THEN <<"useEffect hooks">> ELSE <<>>)
    \o (IF signals.fileUploads THEN <<"File uploads">> ELSE <<>>)
    \o (IF signals.authFlows THEN <<"Auth flows">> ELSE <<>>)
    \o (IF signals.formHandling THEN <<"Form handling">> ELSE <<>>)
    \o (IF nativeHtmlCount > 0 THEN <<"native HTML elements">> ELSE <<>>)
    \o (IF fileLines > LargeFileLines THEN <<"Large file">> ELSE <<>>)

\* Mutant of riskLevelOf: native elements left out of the careful condition.
riskLevelNoNative(signals, nativeHtmlCount, score, thresholds) ==
    IF \/ signals.apiCalls > thresholds.careful.maxApiCalls
       \/ signals.useStateCount > thresholds.careful.maxStateHooks
       \/ signals.useEffectCount > thresholds.careful.maxEffects
       \/ signals.fileUploads
       \/ signals.authFlows
       \/ score >= PageLevelScore
        THEN "page-level"
    ELSE IF \/ signals.apiCalls > thresholds.safe.maxApiCalls
            \/ signals.useStateCount > thresholds.safe.maxStateHooks
            \/ signals.useEffectCount > thresholds.safe.maxEffects
            \/ score >= CarefulScore
        THEN "careful"
    ELSE "safe"

\* Mutant of riskLevelOf: the careful tier tested before the page-level one.
riskLevelCarefulFirst(signals, nativeHtmlCount, score, thresholds) ==
    IF \/ signals.apiCalls > thresholds.safe.maxApiCalls
       \/ signals.useStateCount > thresholds.safe.maxStateHooks
       \/ signals.useEffectCount > thresholds.safe.maxEffects
       \/ nativeHtmlCount > 0
       \/ score >= CarefulScore
        THEN "careful"
    ELSE IF \/ signals.apiCalls > thresholds.careful.maxApiCalls
            \/ signals.useStateCount > thresholds.careful.maxStateHooks
            \/ signals.useEffectCount > thresholds.careful.maxEffects
            \/ signals.fileUploads
            \/ signals.authFlows
            \/ score >= PageLevelScore
        THEN "page-level"
    ELSE "safe"

\* Mutant of riskLevelOf: the score counts for the page-level tier only
\* while it is within the scale of the reported score.
riskLevelWithinScale(signals, nativeHtmlCount, score, thresholds) ==
    IF \/ signals.apiCalls > thresholds.careful.maxApiCalls
       \/ signals.useStateCount > thresholds.careful.maxStateHooks
       \/ signals.useEffectCount > thresholds.careful.maxEffects
       \/ signals.fileUploads
       \/ signals.authFlows
       \/ (score >= PageLevelScore /\ score <= MaxRiskScore)
        THEN "page-level"
    ELSE IF \/ signals.apiCalls > thresholds.safe.maxApiCalls
            \/ signals.useStateCount > thresholds.safe.maxStateHooks
            \/ signals.useEffectCount > thresholds.safe.maxEffects
            \/ nativeHtmlCount > 0
            \/ score >= CarefulScore
        THEN "careful"
    ELSE "safe"

\* The tier of assessRisk, decided on the score before it is clamped.
riskLevelOf(signals, nativeHtmlCount, score, thresholds) ==
    IF \/ signals.apiCalls > thresholds.careful.maxApiCalls
       \/ signals.useStateCount > thresholds.careful.maxStateHooks
       \/ signals.useEffectCount > thresholds.careful.maxEffects
       \/ signals.fileUploads
       \/ signals.authFlows
       \/ score >= PageLevelScore
        THEN "page-level"
    ELSE IF \/ signals.apiCalls > thresholds.safe.maxApiCalls
            \/ signals.useStateCount > thresholds.safe.maxStateHooks
            \/ signals.useEffectCount > thresholds.safe.maxEffects
            \/ nativeHtmlCount > 0
            \/ score >= CarefulScore
        THEN "careful"
    ELSE "safe"

\* Mutant of clampRisk: the score returned as summed.
clampRiskNone(score) == score

\* Math.min(100, score) of assessRisk.
clampRisk(score) == min(MaxRiskScore, score)

assessRisk(signals, nativeHtmlCount, fileLines, thresholds) ==
    LET score == riskPoints(signals, nativeHtmlCount, fileLines)
    IN  [riskLevel |-> riskLevelOf(signals, nativeHtmlCount, score, thresholds),
         score |-> clampRisk(score),
         signals |-> detectedSignals(signals, nativeHtmlCount, fileLines)]

\* content.split("\n").length: the empty text has one (empty) line.
fileLinesOf(content) == IF content = <<>> THEN 1 ELSE Len(content)

\* Mutant of shouldExclude: only a path equal to an exclusion entry is excluded.
shouldExcludeExact(relativePath, excludeDirectories) ==
    \E i \in 1..Len(excludeDirectories) : relativePath = excludeDirectories[i]

shouldExclude(relativePath, excludeDirectories) ==
    \E i \in 1..Len(excludeDirectories) : startsWith(relativePath, excludeDirectories[i])

suggestedActionsOf(riskLevel) ==
    CASE riskLevel = "safe" -> <<"Direct UI swap">>
      [] riskLevel = "careful" -> <<"Extract business logic first", "Replace UI elements incrementally",
                                    "Test thoroughly after each step">>
      [] OTHER -> <<"Extract business logic to hooks", "Replace form elements incrementally",
                    "Test after each section", "Consider splitting into sub-components",
                    "Propose plan first, never auto-apply">>

rationaleOf(riskLevel) ==
    CASE riskLevel = "safe" -> "Pure presentational component with minimal logic"
      [] riskLevel = "careful" -> "Contains API calls or state management that needs careful extraction"
      [] OTHER -> "Complex flows with multiple APIs, critical business logic, or high complexity"

\* analyzeFile of the business-logic analyzer: <<>> for null, <<report>>
\* otherwise.
analyzeBusinessFile(content, relativePath, blConfig) ==
    IF shouldExclude(relativePath, blConfig.excludeDirectories) THEN <<>>
    ELSE LET nativeHtmlElements ==
                 IF blConfig.nativeHtmlElements.enabled
                    THEN detectNativeHtmlElements(content, blConfig.nativeHtmlElements.elements)
                 ELSE [counts |-> [e \in {} |-> 0], total |-> 0]
             businessLogicSignals == detectBusinessLogicSignals(content)
             complexity == assessRisk(businessLogicSignals, nativeHtmlElements.total,
                                      fileLinesOf(content), blConfig.riskThresholds)
         IN  <<[path |-> relativePath,
                nativeHtmlElements |-> nativeHtmlElements,
                businessLogicSignals |-> businessLogicSignals,
                complexity |-> complexity,
                suggestedRefactor |-> [category |-> complexity.riskLevel,
                                       rationale |-> rationaleOf(complexity.riskLevel),
                                       suggestedActions |-> suggestedActionsOf(complexity.riskLevel)]]>>

\* analyzeBusinessLogic up to its loop: the enabled check.
BusinessBegin ==
    /\ blPc = "start"
    /\ blPc' = IF config.businessLogicAnalysis.enabled THEN "loop" ELSE "done"
    /\ UNCHANGED <<files, disk, root, tsconfigJson, config, aliases, reports, idx, pc,
                   seen, pending, reasons, scanDir, blReports, blIdx>>

\* One turn of the for-of loop of analyzeBusinessLogic.
BusinessFile ==
    /\ blPc = "loop"
    /\ blIdx <= Len(files)
    /\ LET filePath == files[blIdx].path
           relativePath == relative(scanDir, filePath)
           report == analyzeBusinessFile(files[blIdx].content, relativePath,
                                         config.businessLogicAnalysis)
       IN  blReports' = IF report = <<>> THEN blReports
                        ELSE putReport(blReports, relativePath, report[1])
    /\ blIdx' = blIdx + 1
    /\ UNCHANGED <<files, disk, root, tsconfigJson, config, aliases, reports, idx, pc,
                   seen, pending, reasons, scanDir, blPc>>

\* The loop is over: the reports are returned.
BusinessFinish ==
    /\ blPc = "loop"
    /\ blIdx > Len(files)
    /\ blPc' = "done"
    /\ UNCHANGED <<files, disk, root, tsconfigJson, config, aliases, reports, idx, pc,
                   seen, pending, reasons, scanDir, blReports, blIdx>>

BusinessNext == BusinessBegin \/ BusinessFile \/ BusinessFinish

\* ------------------------------------------------------------- the inputs

\* The purity configuration of the analyzer's test suite.
PURITY_CONFIG(enabled) ==
    [enabled |-> enabled,
     uiCandidateDirs |-> <<<<"c", "o", "m", "p", "o", "n", "e", "n", "t", "s">>>>,
     allowedImportMatchers |-> <<<<"r", "e", "a", "c", "t">>, <<"c", "l", "s", "x">>, <<"c", "l", "a", "s", "s", "n", "a", "m", "e", "s">>, <<"t", "a", "i", "l", "w", "i", "n", "d", "-", "m", "e", "r", "g", "e">>,
                                 <<"@", "r", "a", "d", "i", "x", "-", "u", "i", "/">>, <<"@", "/", "c", "o", "m", "p", "o", "n", "e", "n", "t", "s", "/", "u", "i", "/">>>>,
     forbiddenImportMatchers |-> <<<<"@", "/", "l", "i", "b", "/">>, <<"@", "/", "s", "e", "r", "v", "e", "r", "/">>, <<"@", "/", "d", "b", "/">>, <<"@", "/", "a", "c", "t", "i", "o", "n", "s", "/">>,
                                   <<"@", "/", "f", "e", "a", "t", "u", "r", "e", "s", "/">>>>,
     businessDirMatchers |-> <<<<"a", "p", "p", "/">>, <<"l", "i", "b", "/">>, <<"s", "e", "r", "v", "e", "r", "/">>, <<"d", "b", "/">>, <<"a", "c", "t", "i", "o", "n", "s", "/">>,
                               <<"f", "e", "a", "t", "u", "r", "e", "s", "/">>>>,
     nextServerImportMatchers |-> <<<<"n", "e", "x", "t", "/", "h", "e", "a", "d", "e", "r", "s">>, <<"n", "e", "x", "t", "/", "c", "a", "c", "h", "e">>>>]

\* tsconfig.json of a Next.js project: "paths": {"@/*": ["./*"]}, no baseUrl.
NextTsconfig == <<[baseUrl |-> <<>>, paths |-> <<[pattern |-> <<"@", "/", "*">>, replacements |-> <<<<".", "/", "*">>>>]>>]>>
NoTsconfig == <<>>

\* Project roots: one whose name holds no business-directory word, one that does.
RepoRoot == <<"/", "r", "e", "p", "o">>
AppRoot == <<"/", "a", "p", "p">>

\* The files of the project, by relative path: two UI candidates and a
\* helper outside the candidate directory.
RelA == <<"c", "o", "m", "p", "o", "n", "e", "n", "t", "s", "/", "a", ".", "t", "s", "x">>
RelB == <<"c", "o", "m", "p", "o", "n", "e", "n", "t", "s", "/", "b", ".", "t", "s">>
RelH == <<"h", "e", "l", "p", "e", "r", ".", "t", "s">>

absPath(projectRoot, relativePath) == projectRoot \o <<"/">> \o relativePath

\* Module specifiers.
ReactSpec == <<"r", "e", "a", "c", "t">>
UiKitSpec == <<"@", "/", "c", "o", "m", "p", "o", "n", "e", "n", "t", "s", "/", "u", "i", "/", "b", "u", "t", "t", "o", "n">>
LibSpec == <<"@", "/", "l", "i", "b", "/", "a", "p", "i">>
HeadersSpec == <<"n", "e", "x", "t", "/", "h", "e", "a", "d", "e", "r", "s">>
RelBSpec == <<".", "/", "b">>
RelBJsSpec == <<".", "/", "b", ".", "j", "s">>
RelBTsSpec == <<".", "/", "b", ".", "t", "s">>
RelASpec == <<".", "/", "a">>
RelHSpec == <<".", ".", "/", "h", "e", "l", "p", "e", "r">>
RelDbSpec == <<".", ".", "/", "d", "b", "/", "c", "l", "i", "e", "n", "t">>

\* All texts of at most n lines drawn from `lines`.
Texts(lines, n) == UNION {[1..k -> lines] : k \in 0..n}

\* A Map holding RelA, RelB and RelH in this order, each present (<<text>>)
\* or not loaded (<<>>).
mapOf(projectRoot, a, b, h) ==
    LET entry(rel, opt) == IF opt = <<>> THEN <<>>
                           ELSE <<[path |-> absPath(projectRoot, rel), content |-> opt[1]]>>
    IN  entry(RelA, a) \o entry(RelB, b) \o entry(RelH, h)

keysOf(fileContents) == {fileContents[i].path : i \in 1..Len(fileContents)}

\* The state at the call of analyzeImportBoundaries, the inputs drawn from
\* the given sets; every loaded file was read from the disk.
InitFrom(roots, tsconfigs, enabled, as, bs, hs) ==
    /\ root \in roots
    /\ tsconfigJson \in tsconfigs
    /\ config \in {[purity |-> PURITY_CONFIG(e)] : e \in enabled}
    /\ \E a \in as, b \in bs, h \in hs : files = mapOf(root, a, b, h)
    /\ disk = keysOf(files)
    /\ aliases = EmptyTsConfig
    /\ reports = emptyReports
    /\ idx = 1
    /\ pc = "start"
    /\ seen = {}
    /\ pending = <<>>
    /\ reasons = <<>>
    /\ scanDir = root
    /\ blReports = emptyReports
    /\ blIdx = 1
    /\ blPc = "start"

MaxLines == 2

ALines == {ImportLine(LibSpec), ImportLine(RelBSpec), ImportLine(RelBJsSpec),
           ImportLine(RelASpec), FetchLine}

BTexts == {<<>>, <<ImportLine(LibSpec)>>, <<ImportLine(RelDbSpec)>>,
           <<ImportLine(RelASpec)>>, <<ImportLine(RelHSpec)>>, <<FetchLine>>,
           <<ImportLine(HeadersSpec)>>}

HTexts == {<<ImportLine(LibSpec)>>, <<CodeLine>>}

present(texts) == {<<t>> : t \in texts}

Init ==
    InitFrom({RepoRoot}, {NoTsconfig, NextTsconfig}, {TRUE},
             present(Texts(ALines, MaxLines)),
             present(BTexts) \cup {<<>>},
             present(HTexts) \cup {<<>>})

Spec == Init /\ [][Next]_vars

\* Scoring inputs: one candidate with up to MaxScoreLines violations of every
\* kind, its dependency impure or not loaded.
MaxScoreLines == 4

ScoreLines == {ImportLine(LibSpec), ImportLine(HeadersSpec), ImportLine(RelBSpec),
               FetchLine}

ScoreInit ==
    InitFrom({RepoRoot}, {NoTsconfig}, {TRUE},
             present(Texts(ScoreLines, MaxScoreLines)),
             {<<>>, <<(<<ImportLine(LibSpec)>>)>>},
             {<<>>})

ScoreSpec == ScoreInit /\ [][Next]_vars

\* Environment inputs: both project roots, with and without the alias table,
\* and files that import what the configuration allows.
EnvLines == {ImportLine(ReactSpec), ImportLine(UiKitSpec), CodeLine}

EnvInit ==
    InitFrom({RepoRoot, AppRoot}, {NoTsconfig, NextTsconfig}, {TRUE},
             present(Texts(EnvLines, MaxLines)),
             {<<>>, <<(<<ImportLine(UiKitSpec)>>)>>},
             {<<>>, <<(<<ImportLine(LibSpec)>>)>>})

EnvSpec == EnvInit /\ [][Next]_vars

\* ---------------------------------------------------------------- claims

loaded == keysOf(files)

relOf(filePath) == relative(root, filePath)

importsOf(filePath) == extractImports(mapGet(files, filePath))

directOf(filePath) == analyzeFileImports(filePath, files, root, aliases, config.purity, {})

countType(rs, type) == Cardinality({i \in 1..Len(rs) : rs[i].type = type})

hasReport(filePath) == relOf(filePath) \in DOMAIN reports

reportOf(filePath) == reports[relOf(filePath)]

\* The file the extension probe of the code finds for an import edge of
\* filePath, <<>> when it finds none or the edge is not relative.
probed(filePath, imp) ==
    LET resolved == resolvePathAlias(imp.path, aliases, root, dirname(filePath))
    IN  IF ~startsWith(imp.path, <<".">>) \/ resolved = <<>> THEN <<>>
        ELSE findFile(resolved, files, 1)

\* Whether a relative specifier written in a file of directory fromDir
\* denotes the source file `target`: spelled without extension, with the
\* target's own extension, or with the .js/.jsx suffix that stands for a
\* .ts/.tsx source.
denotes(specifier, fromDir, target) ==
    LET r == resolve(<<fromDir, specifier>>)
        stem(ext) == SubSeq(r, 1, Len(r) - Len(ext))
    IN  /\ startsWith(specifier, <<".">>)
        /\ \/ r = target
           \/ \E i \in 1..Len(extensions) : r \o extensions[i] = target
           \/ endsWith(r, <<".", "j", "s">>) /\ target \in {stem(<<".", "j", "s">>) \o <<".", "t", "s">>, stem(<<".", "j", "s">>) \o <<".", "t", "s", "x">>}
           \/ endsWith(r, <<".", "j", "s", "x">>) /\ target = stem(<<".", "j", "s", "x">>) \o <<".", "t", "s", "x">>

hasImpureDependency(filePath) ==
    \E k \in 1..Len(importsOf(filePath)) :
        LET found == probed(filePath, importsOf(filePath)[k])
        IN  found # <<>> /\ directOf(found) # <<>>

hasBusinessImport(filePath) ==
    \E k \in 1..Len(importsOf(filePath)) :
        LET imp == importsOf(filePath)[k]
        IN  \/ checkImportAgainstMatchers(imp.path, config.purity.forbiddenImportMatchers)
            \/ isBusinessDir(resolvePathAlias(imp.path, aliases, root, dirname(filePath)),
                             config.purity.businessDirMatchers)

\* C2: a UI candidate whose only import is one relative import of a loaded
\* helper that imports from a business directory (or a forbidden specifier)
\* has exactly one transitive reason, and its importPath is the specifier
\* used to reach the helper.
C2_EndToEnd ==
    pc = "done" =>
        \A f \in loaded, h \in loaded :
            ( /\ f # h
              /\ isUiCandidate(relOf(f), config.purity)
              /\ Len(importsOf(f)) = 1
              /\ denotes(importsOf(f)[1].path, dirname(f), h)
              /\ hasBusinessImport(h) )
            => /\ hasReport(f)
               /\ countType(reportOf(f).reasons, "transitive") = 1
               /\ \A i \in 1..Len(reportOf(f).reasons) :
                    reportOf(f).reasons[i].type = "transitive"
                        => reportOf(f).reasons[i].importPath = importsOf(f)[1].path

\* C3: whatever the spelling of the relative specifier that denotes the
\* helper, a UI candidate that imports a loaded helper with a forbidden
\* import has at least one transitive reason.
C3_EverySpelling ==
    pc = "done" =>
        \A f \in loaded, h \in loaded :
            ( /\ isUiCandidate(relOf(f), config.purity)
              /\ \E k \in 1..Len(importsOf(f)) :
                    denotes(importsOf(f)[k].path, dirname(f), h)
              /\ countType(directOf(h), "forbidden-import") > 0 )
            => /\ hasReport(f)
               /\ countType(reportOf(f).reasons, "transitive") >= 1

\* The loaded files that the relative imports of filePath denote.
dependenciesOf(filePath) ==
    {h \in loaded : \E k \in 1..Len(importsOf(filePath)) :
                        denotes(importsOf(filePath)[k].path, dirname(filePath), h)}

\* C4: a file none of whose relative dependencies has a direct violation
\* gets no transitive reason, whatever those dependencies import in turn:
\* with A importing B importing C and only C importing business logic, A's
\* report has no transitive reason.
C4_OneHopBound ==
    pc = "done" =>
        \A a \in loaded :
            (hasReport(a) /\ \A b \in dependenciesOf(a) : directOf(b) = <<>>)
                => countType(reportOf(a).reasons, "transitive") = 0

C4_Witness ==
    /\ pc = "done"
    /\ \E a \in loaded, b \in loaded, c \in loaded :
        /\ a # b /\ b # c /\ a # c
        /\ dependenciesOf(a) = {b}
        /\ c \in dependenciesOf(b)
        /\ directOf(a) = <<>> /\ directOf(b) = <<>>
        /\ countType(directOf(c), "forbidden-import") > 0
        /\ hasReport(a)
        /\ countType(reportOf(a).reasons, "transitive") = 0

analysable(filePath) ==
    isUiCandidate(relOf(filePath), config.purity) /\ mapGet(files, filePath) # <<>>

\* The steps analyzeImportBoundaries has left at most: per file still to be
\* analysed one step in, one per line of its text and one out, and the
\* return.
RECURSIVE stepsFrom(_)
stepsFrom(i) ==
    IF i > Len(files) THEN 0
    ELSE Len(files[i].content) + 2 + stepsFrom(i + 1)

workLeft ==
    CASE pc = "start" -> stepsFrom(1) + 2
      [] pc = "loop" -> stepsFrom(idx) + 1
      [] pc = "transitive" -> stepsFrom(idx + 1) + Len(pending) + 2
      [] OTHER -> 0

\* C5: analyzeImportBoundaries terminates and returns a report for every UI
\* candidate with text, on every content mapping, also when files import
\* each other in a cycle or a file imports itself: until it has returned a
\* step is always possible, every step takes one off the bounded count of
\* steps left, and at the return no analysable file lacks its report.
C5_CycleSafety ==
    /\ [](pc \in {"start", "loop", "transitive", "done"})
    /\ [](pc = "transitive" => idx <= Len(files))
    /\ [](workLeft >= 0)
    /\ [][workLeft' < workLeft]_vars
    /\ [](pc = "done" => \A p \in loaded : analysable(p) => hasReport(p))

importsFile(p, q) ==
    \E k \in 1..Len(importsOf(p)) : probed(p, importsOf(p)[k]) = q

C5_Witness ==
    /\ pc = "done"
    /\ \E p \in loaded, q \in loaded :
        /\ p # q
        /\ importsFile(p, q) /\ importsFile(q, p)
        /\ hasReport(p) /\ hasReport(q)

\* C6: in every report, purity is impure exactly when the score is above 0,
\* an impure report has reasons and a pure one has none.
C6_PurityIffScore ==
    \A k \in DOMAIN reports :
        /\ reports[k].purity = "impure" <=> reports[k].score > 0
        /\ reports[k].purity = "impure" => reports[k].reasons # <<>>
        /\ reports[k].purity = "pure" => reports[k].reasons = <<>>

C6_Witness ==
    /\ \E k \in DOMAIN reports : reports[k].purity = "impure" /\ reports[k].score > 0
    /\ \E k \in DOMAIN reports : reports[k].purity = "pure" /\ reports[k].reasons = <<>>

weightedSum(rs) ==
    30 * countType(rs, "forbidden-import") + 25 * countType(rs, "server-api")
    + 15 * countType(rs, "transitive") + 10 * countType(rs, "data-fetching")

\* C7: the score of every report is the weighted count of its reasons
\* (30 forbidden-import, 25 server-api, 15 transitive, 10 data-fetching),
\* clamped to 100, and so lies in 0..100.
C7_ScoreFormula ==
    \A k \in DOMAIN reports :
        /\ reports[k].score = (IF weightedSum(reports[k].reasons) > 100 THEN 100
                               ELSE weightedSum(reports[k].reasons))
        /\ reports[k].score \in 0..100

C7_Witness ==
    \E k \in DOMAIN reports :
        /\ weightedSum(reports[k].reasons) > 100
        /\ countType(reports[k].reasons, "forbidden-import") >= 4
        /\ reports[k].score = 100

underCandidatePrefix(relativePath) ==
    \E i \in 1..Len(config.purity.uiCandidateDirs) :
        startsWith(relativePath, config.purity.uiCandidateDirs[i])

\* C8: a file whose relative path is under no uiCandidateDirs prefix is
\* never a key of the reports, whatever it imports.
C8_NonCandidateExcluded ==
    /\ \A p \in loaded : ~underCandidatePrefix(relOf(p)) => ~hasReport(p)
    /\ \A k \in DOMAIN reports : underCandidatePrefix(k)

C8_Witness ==
    /\ pc = "done"
    /\ DOMAIN reports # {}
    /\ \E p \in loaded :
        /\ ~underCandidatePrefix(relOf(p))
        /\ directOf(p) # <<>>
        /\ ~hasReport(p)

onlyAllowedImports(filePath) ==
    LET text == mapGet(files, filePath)
    IN  /\ \E i \in 1..Len(text) : text[i].kind = "import"
        /\ \A i \in 1..Len(text) :
            /\ text[i].kind \notin {"fetch", "axios"}
            /\ text[i].kind = "import" =>
                /\ checkImportAgainstMatchers(text[i].path, config.purity.allowedImportMatchers)
                /\ ~checkImportAgainstMatchers(text[i].path, config.purity.forbiddenImportMatchers)
                /\ ~checkImportAgainstMatchers(text[i].path, config.purity.nextServerImportMatchers)

\* C9: a UI candidate that imports only specifiers of the allowed list, and
\* has no data-fetching idiom, is reported pure with score 0 and no reasons,
\* under every alias table and project root.
C9_AllowedNeutral ==
    pc = "done" =>
        \A p \in loaded :
            (isUiCandidate(relOf(p), config.purity) /\ onlyAllowedImports(p))
                => /\ hasReport(p)
                   /\ reportOf(p).purity = "pure"
                   /\ reportOf(p).score = 0
                   /\ reportOf(p).reasons = <<>>

\* Inputs for the comparison of a text with the text plus one line: every
\* kind of violation, both roots, with and without the alias table.
MonoLines == {ImportLine(LibSpec), ImportLine(HeadersSpec), ImportLine(RelBSpec),
              FetchLine}

MonoInit ==
    InitFrom({RepoRoot, AppRoot}, {NoTsconfig, NextTsconfig}, {TRUE},
             present(Texts(MonoLines, MaxLines)),
             {<<>>, <<(<<ImportLine(LibSpec)>>)>>, <<(<<ImportLine(RelASpec)>>)>>},
             {<<>>})

MonoSpec == MonoInit /\ [][Next]_vars

\* The lines whose addition the monotonicity claim is about.
AddedLines == {ImportLine(LibSpec), ImportLine(HeadersSpec), ImportLine(RelDbSpec),
               ImportLine(RelBSpec), ImportLine(RelASpec), FetchLine}

insertLine(text, at, line) == SubSeq(text, 1, at) \o <<line>> \o SubSeq(text, at + 1, Len(text))

\* The Map with `line` inserted after line `at` of the text of filePath.
withLine(fileContents, filePath, at, line) ==
    [i \in 1..Len(fileContents) |->
        IF fileContents[i].path = filePath
            THEN [path |-> filePath, content |-> insertLine(fileContents[i].content, at, line)]
            ELSE fileContents[i]]

\* C10: adding a line (a forbidden, server-API or business-directory import,
\* a relative import of a loaded file, a data-fetching call) anywhere in the
\* text of a reported file never lowers its score and never turns its
\* report from impure to pure.
C10_Monotonic ==
    pc = "done" =>
        \A p \in loaded :
            hasReport(p) =>
                \A line \in AddedLines, at \in 0..Len(mapGet(files, p)) :
                    LET after == analyzeFile(p, relOf(p), withLine(files, p, at, line),
                                             root, aliases, config.purity)
                    IN  /\ after # <<>>
                        /\ after[1].score >= reportOf(p).score
                        /\ reportOf(p).purity = "impure" => after[1].purity = "impure"

C10_Witness ==
    /\ pc = "done"
    /\ \E p \in loaded :
        /\ hasReport(p)
        /\ countType(reportOf(p).reasons, "transitive") > 0
        /\ \E line \in AddedLines :
            LET after == analyzeFile(p, relOf(p),
                                     withLine(files, p, Len(mapGet(files, p)), line),
                                     root, aliases, config.purity)
            IN  after # <<>> /\ after[1].score > reportOf(p).score

\* ------------------------------------------- inputs of the business analyzer

ButtonTag == <<"b", "u", "t", "t", "o", "n">>
InputTag == <<"i", "n", "p", "u", "t">>
FormTag == <<"f", "o", "r", "m">>
ComponentsDir == <<"c", "o", "m", "p", "o", "n", "e", "n", "t", "s">>

\* Ceilings of the two lower tiers: the same ceiling for the three counts.
thresholdsOf(safeMax, carefulMax) ==
    [safe |-> [maxApiCalls |-> safeMax, maxStateHooks |-> safeMax, maxEffects |-> safeMax],
     careful |-> [maxApiCalls |-> carefulMax, maxStateHooks |-> carefulMax,
                  maxEffects |-> carefulMax]]

\* A BusinessLogicAnalysisConfig.
BL_CONFIG(enabled, excludeDirectories, nativeEnabled, riskThresholds) ==
    [enabled |-> enabled,
     excludeDirectories |-> excludeDirectories,
     nativeHtmlElements |-> [enabled |-> nativeEnabled,
                             elements |-> <<ButtonTag, InputTag, FormTag>>],
     riskThresholds |-> riskThresholds]

\* A text brought to n lines with lines of plain code (unchanged when it
\* has n lines or more).
padTo(text, n) == text \o [i \in 1..(n - Len(text)) |-> CodeLine]

\* The state at the call of analyzeBusinessLogic, the inputs drawn from the
\* given sets; analyzeImportBoundaries is left where it starts.
BusinessInitFrom(configs, as, bs, hs) ==
    /\ root = RepoRoot
    /\ tsconfigJson = NoTsconfig
    /\ config \in configs
    /\ \E a \in as, b \in bs, h \in hs : files = mapOf(root, a, b, h)
    /\ disk = keysOf(files)
    /\ aliases = EmptyTsConfig
    /\ reports = emptyReports
    /\ idx = 1
    /\ pc = "start"
    /\ seen = {}
    /\ pending = <<>>
    /\ reasons = <<>>
    /\ scanDir = root
    /\ blReports = emptyReports
    /\ blIdx = 1
    /\ blPc = "start"

\* Tier inputs: one file with up to MaxRiskLines idioms of every kind, a
\* second one with a form element or not loaded, under ceilings in and out
\* of order.
MaxRiskLines == 3

RiskLines == {FetchLine, ApiGetLine, UseStateLine, UseEffectLine, FormDataLine,
              SignInLine, NativeLine(ButtonTag)}

RiskInit ==
    BusinessInitFrom(
        {[purity |-> PURITY_CONFIG(TRUE),
          businessLogicAnalysis |-> BL_CONFIG(TRUE, <<>>, n, t)] :
            n \in BOOLEAN, t \in {thresholdsOf(0, 2), thresholdsOf(1, 5), thresholdsOf(2, 1)}},
        present(Texts(RiskLines, MaxRiskLines)),
        {<<>>, <<(<<NativeLine(FormTag)>>)>>},
        {<<>>})

RiskSpec == RiskInit /\ [][BusinessNext]_vars

\* Rule-order inputs: a configuration in which one specifier ("next/headers")
\* is both forbidden and a server API, both project roots, with and without
\* the alias table.
OVERLAP_CONFIG(enabled) ==
    [PURITY_CONFIG(enabled) EXCEPT
        !.forbiddenImportMatchers = @ \o <<<<"n", "e", "x", "t", "/">>>>]

RuleLines == {ImportLine(LibSpec), ImportLine(HeadersSpec), ImportLine(RelDbSpec),
              ImportLine(UiKitSpec), ImportLine(RelBSpec)}

RuleInit ==
    /\ root \in {RepoRoot, AppRoot}
    /\ tsconfigJson \in {NoTsconfig, NextTsconfig}
    /\ config \in {[purity |-> PURITY_CONFIG(TRUE)], [purity |-> OVERLAP_CONFIG(TRUE)]}
    /\ \E a \in present(Texts(RuleLines, MaxLines)),
          b \in {<<>>, <<(<<ImportLine(HeadersSpec), ImportLine(LibSpec)>>)>>} :
            files = mapOf(root, a, b, <<>>)
    /\ disk = keysOf(files)
    /\ aliases = EmptyTsConfig
    /\ reports = emptyReports
    /\ idx = 1
    /\ pc = "start"
    /\ seen = {}
    /\ pending = <<>>
    /\ reasons = <<>>
    /\ scanDir = root
    /\ blReports = emptyReports
    /\ blIdx = 1
    /\ blPc = "start"

RuleSpec == RuleInit /\ [][Next]_vars

\* The rule that decides an import edge of filePath, in the order claimed.
ruleOf(imp, filePath) ==
    IF checkImportAgainstMatchers(imp.path, config.purity.forbiddenImportMatchers)
        THEN "forbidden"
    ELSE IF checkImportAgainstMatchers(imp.path, config.purity.nextServerImportMatchers)
        THEN "server"
    ELSE IF isBusinessDir(resolvePathAlias(imp.path, aliases, root, dirname(filePath)),
                          config.purity.businessDirMatchers)
        THEN "business"
    ELSE "none"

\* The rules that apply to an import edge, whatever their order.
rulesApplying(imp, filePath) ==
    {r \in {"forbidden", "server", "business"} :
        \/ r = "forbidden"
           /\ checkImportAgainstMatchers(imp.path, config.purity.forbiddenImportMatchers)
        \/ r = "server"
           /\ checkImportAgainstMatchers(imp.path, config.purity.nextServerImportMatchers)
        \/ r = "business"
           /\ isBusinessDir(resolvePathAlias(imp.path, aliases, root, dirname(filePath)),
                            config.purity.businessDirMatchers)}

\* The reasons of a report that come from the file's own import edges.
edgeReasons(report) ==
    SelectSeq(report.reasons, LAMBDA r : r.type \in {"forbidden-import", "server-api"})

\* C11: every import edge of a reported file yields the reason of the first
\* rule that matches it, in the order forbidden matcher, server-API matcher,
\* business directory, and no reason when none matches; so no edge yields
\* more than one reason, also when several rules apply to it.
C11_FirstMatchWins ==
    \A p \in loaded :
        hasReport(p) =>
            LET rs == edgeReasons(reportOf(p))
                imports == importsOf(p)
                of(imp) == {i \in 1..Len(rs) : rs[i].line = imp.line}
            IN  /\ Len(rs) <= Len(imports)
                /\ \A k \in 1..Len(imports) :
                    LET imp == imports[k]
                        rule == ruleOf(imp, p)
                    IN  /\ Cardinality(of(imp)) = (IF rule = "none" THEN 0 ELSE 1)
                        /\ \A i \in of(imp) :
                            /\ rs[i].importPath = imp.path
                            /\ rule = "forbidden" =>
                                 rs[i].type = "forbidden-import" /\ rs[i].message = "Forbidden import"
                            /\ rule = "server" =>
                                 rs[i].type = "server-api" /\ rs[i].message = "Next.js server API"
                            /\ rule = "business" =>
                                 rs[i].type = "forbidden-import"
                                 /\ rs[i].message = "Business logic zone import"
                /\ \A i, j \in 1..Len(rs) : i < j => rs[i].line < rs[j].line

\* A reported file with an edge to which all three rules apply and one to
\* which only the business-directory rule applies.
C11_Witness ==
    \E p \in loaded :
        /\ hasReport(p)
        /\ \E k \in 1..Len(importsOf(p)) :
            rulesApplying(importsOf(p)[k], p) = {"forbidden", "server"}
        /\ \E k \in 1..Len(importsOf(p)) :
            rulesApplying(importsOf(p)[k], p) = {"forbidden", "business"}
        /\ Len(edgeReasons(reportOf(p))) = 2

\* ------------------------------------------- claims on the business analyzer

blRelOf(filePath) == relative(scanDir, filePath)

hasBlReport(filePath) == blRelOf(filePath) \in DOMAIN blReports

blReportOf(filePath) == blReports[blRelOf(filePath)]

riskThresholds == config.businessLogicAnalysis.riskThresholds

\* The conditions of the two upper tiers, as claimed, on a report.
pageLevelCondition(report) ==
    \/ report.businessLogicSignals.apiCalls > riskThresholds.careful.maxApiCalls
    \/ report.businessLogicSignals.useStateCount > riskThresholds.careful.maxStateHooks
    \/ report.businessLogicSignals.useEffectCount > riskThresholds.careful.maxEffects
    \/ report.businessLogicSignals.fileUploads
    \/ report.businessLogicSignals.authFlows
    \/ report.complexity.score >= 50

carefulCondition(report) ==
    \/ report.businessLogicSignals.apiCalls > riskThresholds.safe.maxApiCalls
    \/ report.businessLogicSignals.useStateCount > riskThresholds.safe.maxStateHooks
    \/ report.businessLogicSignals.useEffectCount > riskThresholds.safe.maxEffects
    \/ report.nativeHtmlElements.total > 0
    \/ report.complexity.score >= 20

noSignals(report) ==
    /\ report.businessLogicSignals.apiCalls = 0
    /\ report.businessLogicSignals.useStateCount = 0
    /\ report.businessLogicSignals.useEffectCount = 0
    /\ ~report.businessLogicSignals.fileUploads
    /\ ~report.businessLogicSignals.authFlows
    /\ ~report.businessLogicSignals.formHandling

\* C12: the tier of every report is page-level when the page-level condition
\* holds, else careful when the careful condition holds, else safe; a file
\* with no signal, no native element and under 300 lines is safe with score
\* 0, and a file with 4 API-call idioms is page-level.
C12_TierOrder ==
    \A p \in loaded :
        hasBlReport(p) =>
            LET report == blReportOf(p)
            IN  /\ report.complexity.riskLevel =
                       (IF pageLevelCondition(report) THEN "page-level"
                        ELSE IF carefulCondition(report) THEN "careful"
                        ELSE "safe")
                /\ (/\ noSignals(report)
                    /\ report.nativeHtmlElements.total = 0
                    /\ fileLinesOf(mapGet(files, p)) < 300)
                   => report.complexity.riskLevel = "safe" /\ report.complexity.score = 0
                /\ report.businessLogicSignals.apiCalls = 4
                   => report.complexity.riskLevel = "page-level"

\* A report with 4 API calls under a careful ceiling of 5: page-level by its
\* score alone, though the careful condition holds as well.
C12_Witness ==
    \E p \in loaded :
        /\ hasBlReport(p)
        /\ blReportOf(p).businessLogicSignals.apiCalls = 4
        /\ riskThresholds.careful.maxApiCalls = 5
        /\ carefulCondition(blReportOf(p))
        /\ blReportOf(p).complexity.riskLevel = "page-level"

\* Score inputs: one file with up to MaxRiskScoreLines idioms of every
\* weight, or a file with four double API calls beside a file of exactly
\* 300 lines or of one line more.
MaxRiskScoreLines == 4

RiskScoreLines == {ApiGetLine, UseStateLine, UseEffectLine, FileInputLine, SignInLine,
                   NativeLine(FormTag)}

RiskScoreConfigs ==
    {[purity |-> PURITY_CONFIG(TRUE),
      businessLogicAnalysis |-> BL_CONFIG(TRUE, <<>>, TRUE, thresholdsOf(1, 5))]}

RiskScoreInit ==
    \/ BusinessInitFrom(RiskScoreConfigs,
                        present(Texts(RiskScoreLines, MaxRiskScoreLines)), {<<>>}, {<<>>})
    \/ BusinessInitFrom(RiskScoreConfigs,
                        {<<(<<ApiGetLine, ApiGetLine, ApiGetLine, ApiGetLine>>)>>},
                        {<<padTo(<<NativeLine(FormTag)>>, LargeFileLines)>>,
                         <<padTo(<<NativeLine(FormTag)>>, LargeFileLines + 1)>>},
                        {<<>>})

RiskScoreSpec == RiskScoreInit /\ [][BusinessNext]_vars

\* The weighted sum claimed for a report of file p, before the clamp.
riskSum(p) ==
    LET report == blReportOf(p)
    IN  15 * report.businessLogicSignals.apiCalls
        + 5 * report.businessLogicSignals.useStateCount
        + 10 * report.businessLogicSignals.useEffectCount
        + (IF report.businessLogicSignals.fileUploads THEN 25 ELSE 0)
        + (IF report.businessLogicSignals.authFlows THEN 30 ELSE 0)
        + (IF report.businessLogicSignals.formHandling THEN 10 ELSE 0)
        + 2 * report.nativeHtmlElements.total
        + (IF fileLinesOf(mapGet(files, p)) > 300 THEN 10 ELSE 0)

\* C13: the risk score of every report is the weighted sum of its signals,
\* its native elements and the large-file bonus, clamped to 100, and so lies
\* in 0..100.
C13_RiskScoreFormula ==
    \A p \in loaded :
        hasBlReport(p) =>
            /\ blReportOf(p).complexity.score =
                   (IF riskSum(p) > 100 THEN 100 ELSE riskSum(p))
            /\ blReportOf(p).complexity.score \in 0..100

\* A report whose weighted sum is 120 and whose score is 100, beside the
\* report of a file of 301 lines that has the large-file bonus.
C13_Witness ==
    \E p \in loaded, q \in loaded :
        /\ hasBlReport(p) /\ hasBlReport(q)
        /\ riskSum(p) = 120 /\ blReportOf(p).complexity.score = 100
        /\ fileLinesOf(mapGet(files, q)) = 301
        /\ blReportOf(q).complexity.score = 22

\* C14: a report with exactly one native element counted and no API call,
\* hook, upload or auth signal has tier careful, and no report with a native
\* element total of 1 or more has tier safe.
C14_NativeAloneIsCareful ==
    \A p \in loaded :
        hasBlReport(p) =>
            LET report == blReportOf(p)
            IN  /\ (/\ report.nativeHtmlElements.total = 1
                    /\ report.businessLogicSignals.apiCalls = 0
                    /\ report.businessLogicSignals.useStateCount = 0
                    /\ report.businessLogicSignals.useEffectCount = 0
                    /\ ~report.businessLogicSignals.fileUploads
                    /\ ~report.businessLogicSignals.authFlows)
                   => report.complexity.riskLevel = "careful"
                /\ report.nativeHtmlElements.total >= 1
                   => report.complexity.riskLevel # "safe"

\* A report of a one-line file holding one button, under ceilings the file
\* does not reach: careful with score 2.
C14_Witness ==
    \E p \in loaded :
        /\ hasBlReport(p)
        /\ mapGet(files, p) = <<NativeLine(ButtonTag)>>
        /\ blReportOf(p).nativeHtmlElements.total = 1
        /\ noSignals(blReportOf(p))
        /\ riskThresholds.safe.maxApiCalls = 2
        /\ blReportOf(p).complexity.score = 2
        /\ blReportOf(p).complexity.riskLevel = "careful"

\* Switch inputs: each analyzer enabled or not, over files with violations
\* and signals; the two analyzers run side by side on the same content.
SwitchLines == {ImportLine(LibSpec), ImportLine(RelBSpec), FetchLine}

SwitchInit ==
    BusinessInitFrom(
        {[purity |-> PURITY_CONFIG(p),
          businessLogicAnalysis |-> BL_CONFIG(b, <<>>, TRUE, thresholdsOf(1, 5))] :
            p \in BOOLEAN, b \in BOOLEAN},
        present(Texts(SwitchLines, MaxLines)),
        {<<>>, <<(<<ImportLine(LibSpec), SignInLine>>)>>},
        {<<>>})

SwitchNext == Next \/ BusinessNext

SwitchSpec == SwitchInit /\ [][SwitchNext]_vars

\* C15: with purity.enabled false analyzeImportBoundaries never enters its
\* loop and returns the empty mapping, and with businessLogicAnalysis.enabled
\* false analyzeBusinessLogic does the same, whatever the files hold.
C15_DisabledIsNoOp ==
    /\ ~config.purity.enabled =>
          reports = emptyReports /\ pc \in {"start", "done"}
    /\ ~config.businessLogicAnalysis.enabled =>
          blReports = emptyReports /\ blPc \in {"start", "done"}
    /\ pc \in {"start", "loop", "transitive", "done"}
    /\ blPc \in {"start", "loop", "done"}

\* Both analyzers disabled and returned, over a file map in which a UI
\* candidate has a forbidden import and an API call.
C15_Witness ==
    /\ ~config.purity.enabled /\ ~config.businessLogicAnalysis.enabled
    /\ pc = "done" /\ blPc = "done"
    /\ reports = emptyReports /\ blReports = emptyReports
    /\ \E p \in loaded :
        /\ isUiCandidate(relOf(p), config.purity)
        /\ directOf(p) # <<>>
        /\ detectBusinessLogicSignals(mapGet(files, p)).apiCalls > 0

\* Exclusion inputs: no exclusion directory, the directory of the two
\* components, one component's path, or a directory outside the project's
\* files; one of the files may be empty.
HelperPrefix == <<"h", "e", "l", "p">>
VendorDir == <<"v", "e", "n", "d", "o", "r">>

ExcludeInit ==
    BusinessInitFrom(
        {[purity |-> PURITY_CONFIG(TRUE),
          businessLogicAnalysis |-> BL_CONFIG(TRUE, x, TRUE, thresholdsOf(1, 5))] :
            x \in {<<>>, <<ComponentsDir>>, <<VendorDir, RelA>>, <<VendorDir>>,
                   <<HelperPrefix>>}},
        present(Texts({FetchLine, NativeLine(ButtonTag)}, MaxLines)),
        {<<>>, <<(<<>>)>>, <<(<<SignInLine>>)>>},
        {<<>>, <<(<<CodeLine>>)>>})

ExcludeSpec == ExcludeInit /\ [][BusinessNext]_vars

\* The path starts with a configured exclusion directory.
matchesExclusion(relativePath) ==
    \E i \in 1..Len(config.businessLogicAnalysis.excludeDirectories) :
        startsWith(relativePath, config.businessLogicAnalysis.excludeDirectories[i])

\* C16: no file whose scan-relative path matches an exclusion directory ever
\* has a key in the returned mapping, and when analyzeBusinessLogic returns
\* every other file of the content mapping has its report, under its
\* relative path.
C16_ExcludedOrReported ==
    /\ \A k \in DOMAIN blReports :
        /\ ~matchesExclusion(k)
        /\ \E p \in loaded : blRelOf(p) = k /\ blReports[k].path = k
    /\ blPc = "done" =>
        \A p \in loaded : hasBlReport(p) <=> ~matchesExclusion(blRelOf(p))

\* analyzeBusinessLogic has returned: one file is excluded and has no
\* report, another is empty and has one.
C16_Witness ==
    /\ blPc = "done"
    /\ \E p \in loaded, q \in loaded :
        /\ matchesExclusion(blRelOf(p)) /\ ~hasBlReport(p)
        /\ mapGet(files, q) = <<>> /\ hasBlReport(q)

\* Order inputs: two components that may import each other, loaded in
\* either order.
reverse(s) == [i \in 1..Len(s) |-> s[Len(s) + 1 - i]]

OrderLines == {ImportLine(LibSpec), ImportLine(RelBSpec), ImportLine(RelASpec), FetchLine}

OrderInit ==
    /\ root = RepoRoot
    /\ tsconfigJson \in {NoTsconfig, NextTsconfig}
    /\ config = [purity |-> PURITY_CONFIG(TRUE)]
    /\ \E a \in present(Texts(OrderLines, MaxLines)),
          b \in {<<>>, <<(<<ImportLine(LibSpec)>>)>>, <<(<<ImportLine(RelASpec)>>)>>} :
            files \in {mapOf(root, a, b, <<>>), reverse(mapOf(root, a, b, <<>>))}
    /\ disk = keysOf(files)
    /\ aliases = EmptyTsConfig
    /\ reports = emptyReports
    /\ idx = 1
    /\ pc = "start"
    /\ seen = {}
    /\ pending = <<>>
    /\ reasons = <<>>
    /\ scanDir = root
    /\ blReports = emptyReports
    /\ blIdx = 1
    /\ blPc = "start"

OrderSpec == OrderInit /\ [][Next]_vars

\* What analyzeFile gives for file p on the content mapping taken in the
\* opposite order, with nothing carried over from any other file.
reportAlone(p) ==
    analyzeFile(p, relOf(p), reverse(files), root, loadTsConfig(tsconfigJson), config.purity)

\* C17: the report stored for a file is the one analyzeFile gives for it on
\* the content mapping and the configuration alone, whatever the order of
\* the mapping and whatever was analysed before it; the visited set holds
\* the file under analysis during its transitive check and is empty between
\* two files.
C17_OrderIndependent ==
    /\ \A p \in loaded :
        hasReport(p) => reportAlone(p) = <<reportOf(p)>>
    /\ pc = "done" => \A p \in loaded : hasReport(p) <=> reportAlone(p) # <<>>
    /\ pc = "transitive" => seen = {files[idx].path}
    /\ pc # "transitive" => seen = {}

\* The first file of the mapping imports the second, which has a forbidden
\* import and is analysed after it, and the second imports the first: the
\* first has its transitive reason, the second has none.
C17_Witness ==
    /\ pc = "done"
    /\ Len(files) = 2
    /\ importsFile(files[1].path, files[2].path)
    /\ importsFile(files[2].path, files[1].path)
    /\ directOf(files[1].path) = <<>> /\ directOf(files[2].path) # <<>>
    /\ countType(reportOf(files[1].path).reasons, "transitive") > 0
    /\ countType(reportOf(files[2].path).reasons, "transitive") = 0

\* Failure inputs: texts on which the parse throws, with imports and calls
\* beside the broken line, and a relative import whose target is loaded,
\* broken or not loaded at all.
FailLines == {ImportLine(LibSpec), ImportLine(RelBSpec), BrokenLine, FetchLine}

FailInit ==
    InitFrom({RepoRoot}, {NoTsconfig, NextTsconfig}, {TRUE},
             present(Texts(FailLines, MaxLines)),
             {<<>>, <<(<<ImportLine(LibSpec)>>)>>, <<(<<ImportLine(LibSpec), BrokenLine>>)>>,
              <<(<<BrokenLine, ImportLine(RelASpec)>>)>>},
             {<<>>})

FailSpec == FailInit /\ [][Next]_vars

broken(filePath) == parseFails(mapGet(files, filePath))

\* The content mapping without the files on which the parse throws.
withoutBroken(fileContents) ==
    SelectSeq(fileContents, LAMBDA entry : ~parseFails(entry.content))

transitiveOf(filePath) ==
    SelectSeq(reportOf(filePath).reasons, LAMBDA r : r.type = "transitive")

\* C19, as claimed: in the transitive check of one file an import edge whose
\* target is in the visited set contributes no transitive reason: no
\* transitive reason names the analysed file itself as its target, and no
\* two transitive reasons of one report name the same target.
C19_VisitedSkipped ==
    \A p \in loaded :
        hasReport(p) =>
            \A i \in 1..Len(transitiveOf(p)) :
                /\ transitiveOf(p)[i].resolvedPath # p
                /\ \A j \in 1..(i - 1) :
                      transitiveOf(p)[j].resolvedPath # transitiveOf(p)[i].resolvedPath

\* The loaded files the extension probe finds for the relative imports of
\* filePath and that have a direct reason of their own.
impureDependenciesOf(filePath) ==
    {h \in loaded : /\ directOf(h) # <<>>
                    /\ \E k \in 1..Len(importsOf(filePath)) :
                          probed(filePath, importsOf(filePath)[k]) = h}

\* C20, as claimed: a report has as many transitive reasons as the analysed
\* file has distinct loaded relative dependencies with a direct violation,
\* and each reason names a specifier of the file that reaches its target.
C20_OnePerDependency ==
    \A p \in loaded :
        hasReport(p) =>
            /\ Len(transitiveOf(p)) = Cardinality(impureDependenciesOf(p))
            /\ \A i \in 1..Len(transitiveOf(p)) :
                  \E k \in 1..Len(importsOf(p)) :
                      /\ importsOf(p)[k].path = transitiveOf(p)[i].importPath
                      /\ probed(p, importsOf(p)[k]) = transitiveOf(p)[i].resolvedPath

\* Probe inputs: a candidate that imports its dependencies under several
\* spellings, a dependency with a source suffix and one without, each loaded
\* or not, and each loaded dependency on the disk or not (the content
\* mapping is a parameter of analyzeImportBoundaries; nothing in the code
\* ties its keys to the disk).
RelUtil == <<"c", "o", "m", "p", "o", "n", "e", "n", "t", "s", "/", "u", "t", "i", "l", ".", "m", "j", "s">>
RelUtilSpec == <<".", "/", "u", "t", "i", "l">>
RelUtilMjsSpec == <<".", "/", "u", "t", "i", "l", ".", "m", "j", "s">>

ProbeLines == {ImportLine(RelBSpec), ImportLine(RelBTsSpec), ImportLine(RelUtilSpec),
               ImportLine(RelUtilMjsSpec)}

ProbeInit ==
    /\ root = RepoRoot
    /\ tsconfigJson = NoTsconfig
    /\ config = [purity |-> PURITY_CONFIG(TRUE)]
    /\ \E a \in Texts(ProbeLines, MaxLines), b \in BOOLEAN, u \in BOOLEAN :
          files = <<[path |-> absPath(root, RelA), content |-> a]>>
                  \o (IF b THEN <<[path |-> absPath(root, RelB),
                                   content |-> <<ImportLine(LibSpec)>>]>> ELSE <<>>)
                  \o (IF u THEN <<[path |-> absPath(root, RelUtil),
                                   content |-> <<ImportLine(LibSpec)>>]>> ELSE <<>>)
    /\ \E gone \in SUBSET (keysOf(files) \ {absPath(root, RelA)}) :
          disk = keysOf(files) \ gone
    /\ aliases = EmptyTsConfig
    /\ reports = emptyReports
    /\ idx = 1
    /\ pc = "start"
    /\ seen = {}
    /\ pending = <<>>
    /\ reasons = <<>>
    /\ scanDir = root
    /\ blReports = emptyReports
    /\ blIdx = 1
    /\ blPc = "start"

ProbeSpec == ProbeInit /\ [][Next]_vars

\* The resolved path of a relative import edge of filePath.
resolvedOf(filePath, imp) ==
    resolvePathAlias(imp.path, aliases, root, dirname(filePath))

\* The first entry of a candidate list that passes `ok`, <<>> when none does.
firstOf(candidates, ok(_)) ==
    IF \E i \in 1..Len(candidates) : ok(candidates[i])
       THEN candidates[CHOOSE i \in 1..Len(candidates) :
                           /\ ok(candidates[i])
                           /\ \A j \in 1..(i - 1) : ~ok(candidates[j])]
    ELSE <<>>

\* The candidate list of the claim: the path as given, then the path with
\* each source suffix appended.
candidatesAsGiven(resolved) ==
    <<resolved>> \o [i \in 1..Len(extensions) |-> resolved \o extensions[i]]

\* The candidate list of the amended claim: per source suffix, the path
\* itself when it already ends with the suffix, else the path with the
\* suffix appended.
candidatesBySuffix(resolved) ==
    [i \in 1..Len(extensions) |->
        IF endsWith(resolved, extensions[i]) THEN resolved ELSE resolved \o extensions[i]]

\* C21, as claimed: the target of a relative import is the first of the path
\* as given and the path with .ts, .tsx, .js, .jsx appended that is a key of
\* the content mapping, membership in the mapping alone deciding.
C21_MembershipDecides ==
    \A p \in loaded :
        \A k \in 1..Len(importsOf(p)) :
            startsWith(importsOf(p)[k].path, <<".">>) =>
                probed(p, importsOf(p)[k])
                    = firstOf(candidatesAsGiven(resolvedOf(p, importsOf(p)[k])),
                              LAMBDA c : c \in loaded)

\* The target of the amended claim for an import edge of filePath.
targetOf(filePath, imp) ==
    IF ~startsWith(imp.path, <<".">>) THEN <<>>
    ELSE firstOf(candidatesBySuffix(resolvedOf(filePath, imp)),
                 LAMBDA c : c \in disk /\ c \in loaded)

\* C21, amended: the candidates are, for .ts, .tsx, .js and .jsx in this
\* order, the resolved path itself when it already ends with the suffix and
\* otherwise the path with the suffix appended; the target is the first
\* candidate that exists on the disk and is a key of the content mapping,
\* and a report's transitive reasons name exactly the targets so found that
\* have a direct reason.
C21_ProbeBySuffix ==
    \A p \in loaded :
        /\ \A k \in 1..Len(importsOf(p)) :
              probed(p, importsOf(p)[k]) = targetOf(p, importsOf(p)[k])
        /\ hasReport(p) =>
              {transitiveOf(p)[i].resolvedPath : i \in 1..Len(transitiveOf(p))}
                  = {t \in loaded : /\ directOf(t) # <<>>
                                    /\ \E k \in 1..Len(importsOf(p)) :
                                          targetOf(p, importsOf(p)[k]) = t}

\* analyzeImportBoundaries has returned: a candidate importing './b.ts' and
\* './util.mjs', both loaded, on the disk and impure, is reported with a
\* transitive reason for b.ts and none for util.mjs.
C21_Witness ==
    /\ pc = "done"
    /\ LET a == absPath(root, RelA)
           b == absPath(root, RelB)
           u == absPath(root, RelUtil)
       IN  /\ {a, b, u} \subseteq loaded
           /\ {b, u} \subseteq disk
           /\ mapGet(files, a) = <<ImportLine(RelBTsSpec), ImportLine(RelUtilMjsSpec)>>
           /\ directOf(b) # <<>> /\ directOf(u) # <<>>
           /\ hasReport(a)
           /\ Len(transitiveOf(a)) = 1
           /\ transitiveOf(a)[1].resolvedPath = b

\* Edge inputs: one dependency reached by a relative, an aliased, a
\* root-absolute and a bare specifier, the dependency impure, pure or not
\* loaded.
AliasBSpec == <<"@", "/", "c", "o", "m", "p", "o", "n", "e", "n", "t", "s", "/", "b">>
RootBSpec == <<"/", "c", "o", "m", "p", "o", "n", "e", "n", "t", "s", "/", "b">>

EdgeLines == {ImportLine(RelBSpec), ImportLine(AliasBSpec), ImportLine(RootBSpec),
              ImportLine(ReactSpec)}

EdgeInit ==
    InitFrom({RepoRoot}, {NoTsconfig, NextTsconfig}, {TRUE},
             present(Texts(EdgeLines, MaxLines)),
             {<<>>, <<(<<ImportLine(LibSpec)>>)>>, <<(<<CodeLine>>)>>},
             {<<>>})

EdgeSpec == EdgeInit /\ [][Next]_vars

\* The file the extension probe would find for an import edge of filePath
\* if the edge were inspected whatever its specifier starts with.
reached(filePath, imp) ==
    LET resolved == resolvePathAlias(imp.path, aliases, root, dirname(filePath))
    IN  IF resolved = <<>> THEN <<>> ELSE findFile(resolved, files, 1)

\* C22: every transitive reason of a report names a specifier of the file
\* that starts with '.', and a report has as many transitive reasons as the
\* file has '.'-prefixed edges that reach a loaded file with direct reasons:
\* the edges that do not start with '.' add none.
C22_OnlyRelativeEdges ==
    \A p \in loaded :
        hasReport(p) =>
            /\ \A i \in 1..Len(transitiveOf(p)) :
                  startsWith(transitiveOf(p)[i].importPath, <<".">>)
            /\ Len(transitiveOf(p))
                  = Cardinality({k \in 1..Len(importsOf(p)) :
                        /\ startsWith(importsOf(p)[k].path, <<".">>)
                        /\ reached(p, importsOf(p)[k]) # <<>>
                        /\ directOf(reached(p, importsOf(p)[k])) # <<>>})

\* analyzeImportBoundaries has returned: a candidate whose aliased and
\* root-absolute imports both resolve to a loaded file with a forbidden
\* import is reported with no transitive reason.
C22_Witness ==
    /\ pc = "done"
    /\ LET a == absPath(root, RelA)
           b == absPath(root, RelB)
       IN  /\ {a, b} \subseteq loaded
           /\ mapGet(files, a) = <<ImportLine(AliasBSpec), ImportLine(RootBSpec)>>
           /\ reached(a, ImportLine(AliasBSpec)) = b
           /\ reached(a, ImportLine(RootBSpec)) = b
           /\ directOf(b) # <<>>
           /\ hasReport(a)
           /\ transitiveOf(a) = <<>>

\* Matcher inputs: specifiers equal to a matcher, below it, and merely
\* beginning with its letters, for a matcher with and one without a trailing
\* '/'.
HeadersSubSpec == <<"n", "e", "x", "t", "/", "h", "e", "a", "d", "e", "r", "s", "/", "x">>
HeadersExtraSpec == <<"n", "e", "x", "t", "/", "h", "e", "a", "d", "e", "r", "s", "-", "e", "x", "t", "r", "a">>
LibBareSpec == <<"@", "/", "l", "i", "b">>
LibrarySpec == <<"@", "/", "l", "i", "b", "r", "a", "r", "y", "/", "x">>

MatchLines == {ImportLine(HeadersSpec), ImportLine(HeadersSubSpec), ImportLine(HeadersExtraSpec),
               ImportLine(LibSpec), ImportLine(LibBareSpec), ImportLine(LibrarySpec)}

MatchInit ==
    InitFrom({RepoRoot}, {NoTsconfig, NextTsconfig}, {TRUE},
             present(Texts(MatchLines, MaxLines)), {<<>>}, {<<>>})

MatchSpec == MatchInit /\ [][Next]_vars

\* The rule of the claim for one matcher.
matcherMatches(specifier, matcher) ==
    LET prefix(n) == IF n <= Len(specifier) THEN SubSeq(specifier, 1, n) ELSE <<>>
    IN  IF matcher[Len(matcher)] = "/"
           THEN prefix(Len(matcher)) = matcher
        ELSE \/ specifier = matcher
             \/ prefix(Len(matcher) + 1) = matcher \o <<"/">>

matchesList(specifier, matchers) ==
    \E i \in 1..Len(matchers) : matcherMatches(specifier, matchers[i])

\* C23: a specifier is held against a matcher list by the rule of the claim
\* (prefix for a matcher ending with '/', equality or prefix-with-'/'
\* otherwise, any entry sufficing), and the reports follow it: a report has
\* a "Forbidden import" reason per edge that matches the forbidden list and
\* a server-api reason per other edge that matches the server list.
C23_MatcherRule ==
    \A p \in loaded :
        /\ \A k \in 1..Len(importsOf(p)) :
              /\ checkImportAgainstMatchers(importsOf(p)[k].path, config.purity.forbiddenImportMatchers)
                    <=> matchesList(importsOf(p)[k].path, config.purity.forbiddenImportMatchers)
              /\ checkImportAgainstMatchers(importsOf(p)[k].path, config.purity.nextServerImportMatchers)
                    <=> matchesList(importsOf(p)[k].path, config.purity.nextServerImportMatchers)
        /\ hasReport(p) =>
              LET rs == reportOf(p).reasons
                  forbidden(k) == matchesList(importsOf(p)[k].path, config.purity.forbiddenImportMatchers)
                  server(k) == matchesList(importsOf(p)[k].path, config.purity.nextServerImportMatchers)
              IN  /\ Cardinality({i \in 1..Len(rs) : rs[i].message = "Forbidden import"})
                        = Cardinality({k \in 1..Len(importsOf(p)) : forbidden(k)})
                  /\ countType(rs, "server-api")
                        = Cardinality({k \in 1..Len(importsOf(p)) : ~forbidden(k) /\ server(k)})

\* analyzeImportBoundaries has returned: of the imports 'next/headers/x' and
\* 'next/headers-extra' of a candidate, the first alone has a server-api
\* reason.
C23_Witness ==
    /\ pc = "done"
    /\ LET a == absPath(root, RelA)
       IN  /\ a \in loaded
           /\ mapGet(files, a) = <<ImportLine(HeadersSubSpec), ImportLine(HeadersExtraSpec)>>
           /\ hasReport(a)
           /\ countType(reportOf(a).reasons, "server-api") = 1
           /\ reportOf(a).reasons[1].importPath = HeadersSubSpec

\* Data-fetching inputs: a candidate with fetch( and axios. calls beside its
\* imports, and a dependency that is impure by an import, holds such calls
\* only, or is not loaded.
FetchLines == {FetchLine, AxiosLine, ImportLine(LibSpec), ImportLine(RelBSpec)}

FetchInit ==
    InitFrom({RepoRoot}, {NoTsconfig, NextTsconfig}, {TRUE},
             present(Texts(FetchLines, MaxLines)),
             {<<>>, <<(<<FetchLine>>)>>, <<(<<AxiosLine, FetchLine>>)>>,
              <<(<<ImportLine(LibSpec)>>)>>},
             {<<>>})

FetchSpec == FetchInit /\ [][Next]_vars

\* The number of fetch( and axios. idioms in the text of a file.
idiomCount(filePath) ==
    Cardinality({i \in 1..Len(mapGet(files, filePath)) :
                    mapGet(files, filePath)[i].kind \in {"fetch", "axios"}})

\* C24: a report has one data-fetching reason when the file's text holds at
\* least one fetch( or axios. idiom and none otherwise, and the other
\* reasons of the report are those of the file's imports, whatever idioms
\* the text holds.
C24_OneDataFetching ==
    \A p \in loaded :
        hasReport(p) =>
            /\ countType(reportOf(p).reasons, "data-fetching")
                  = (IF idiomCount(p) > 0 THEN 1 ELSE 0)
            /\ SelectSeq(reportOf(p).reasons, LAMBDA r : r.type # "data-fetching")
                  = directOf(p) \o checkTransitiveImports(p, files, root, aliases,
                                                          config.purity, {})

\* analyzeImportBoundaries has returned: a candidate whose text holds a
\* fetch( and an axios. call is reported with one data-fetching reason.
C24_Witness ==
    /\ pc = "done"
    /\ \E p \in loaded :
        /\ hasReport(p)
        /\ \E i, j \in 1..Len(mapGet(files, p)) :
              mapGet(files, p)[i] = FetchLine /\ mapGet(files, p)[j] = AxiosLine
        /\ idiomCount(p) = 2
        /\ countType(reportOf(p).reasons, "data-fetching") = 1

\* C28: every transitive reason of a report names a target that has a reason
\* from an import edge of its own; a loaded relative dependency with no such
\* reason causes none, whatever fetch( or axios. idioms its text holds.
C28_IdiomNotTransitive ==
    \A p \in loaded :
        hasReport(p) =>
            /\ \A i \in 1..Len(transitiveOf(p)) :
                  directOf(transitiveOf(p)[i].resolvedPath) # <<>>
            /\ \A k \in 1..Len(importsOf(p)) :
                  LET t == probed(p, importsOf(p)[k])
                  IN  (t # <<>> /\ directOf(t) = <<>>) =>
                         \A i \in 1..Len(transitiveOf(p)) :
                             transitiveOf(p)[i].resolvedPath # t

\* analyzeImportBoundaries has returned: a dependency whose text holds fetch(
\* and no import is itself reported impure with a data-fetching reason,
\* while the candidate that imports it has no transitive reason.
C28_Witness ==
    /\ pc = "done"
    /\ LET a == absPath(root, RelA)
           b == absPath(root, RelB)
       IN  /\ {a, b} \subseteq loaded
           /\ probed(a, ImportLine(RelBSpec)) = b
           /\ \E k \in 1..Len(importsOf(a)) : importsOf(a)[k].path = RelBSpec
           /\ idiomCount(b) > 0
           /\ directOf(b) = <<>>
           /\ hasReport(b) /\ reportOf(b).purity = "impure"
           /\ hasReport(a) /\ transitiveOf(a) = <<>>

\* Alias inputs: the alias table of a Next.js project, that of a SvelteKit
\* project ("paths": {"$lib/*": ["./src/lib/*"]}) or none, and specifiers of
\* every kind the resolver tells apart.
SvelteTsconfig == <<[baseUrl |-> <<>>, paths |-> <<[pattern |-> <<"$", "l", "i", "b", "/", "*">>, replacements |-> <<<<".", "/", "s", "r", "c", "/", "l", "i", "b", "/", "*">>>>]>>]>>
SvelteLibSpec == <<"$", "l", "i", "b", "/", "a", "p", "i">>
RootLibSpec == <<"/", "l", "i", "b", "/", "x">>

AliasLines == {ImportLine(SvelteLibSpec), ImportLine(LibSpec), ImportLine(RelBSpec),
               ImportLine(RootLibSpec), ImportLine(ReactSpec)}

AliasInit ==
    InitFrom({RepoRoot}, {NoTsconfig, NextTsconfig, SvelteTsconfig}, {TRUE},
             present(Texts(AliasLines, MaxLines)), {<<>>}, {<<>>})

AliasSpec == AliasInit /\ [][Next]_vars

\* A specifier matches an alias pattern: the text before and after the
\* wildcard is found as written, the wildcard standing for what is between.
wildcardMatches(specifier, pattern) ==
    LET star == indexOf(pattern, "*", 1)
    IN  IF star = 0 THEN specifier = pattern
        ELSE /\ startsWith(specifier, SubSeq(pattern, 1, star - 1))
             /\ endsWith(specifier, SubSeq(pattern, star + 1, Len(pattern)))
             /\ Len(specifier) >= Len(pattern)

wildcardCapture(specifier, pattern) ==
    LET star == indexOf(pattern, "*", 1)
    IN  IF star = 0 THEN <<>>
        ELSE SubSeq(specifier, star, Len(specifier) - (Len(pattern) - star))

\* The resolver of the claim.
resolverOfClaim(specifier, tsConfig, projectRoot, currentFileDir) ==
    LET hits == {i \in 1..Len(tsConfig.paths) :
                    wildcardMatches(specifier, tsConfig.paths[i].pattern)}
    IN  IF hits # {}
           THEN LET first == CHOOSE i \in hits : \A j \in hits : i <= j
                    entry == tsConfig.paths[first]
                    base == IF tsConfig.baseUrl # <<>> THEN tsConfig.baseUrl ELSE projectRoot
                IN  resolve(<<projectRoot, base,
                              replaceStar(entry.replacements[1],
                                          wildcardCapture(specifier, entry.pattern))>>)
        ELSE IF startsWith(specifier, <<".">>) THEN resolve(<<currentFileDir, specifier>>)
        ELSE IF startsWith(specifier, <<"/">>) THEN resolve(<<projectRoot, slice(specifier, 1)>>)
        ELSE <<>>

\* C25, as claimed: for every import of every loaded file the alias resolver
\* returns what the claim says: the replacement of the first alias pattern
\* the specifier matches, with the capture substituted and resolved against
\* the base directory; else the path resolved against the importing file's
\* directory ('.') or the project root ('/'); else null.
C25_AliasResolver ==
    pc # "start" =>
        \A p \in loaded :
            \A k \in 1..Len(importsOf(p)) :
                resolvePathAlias(importsOf(p)[k].path, aliases, root, dirname(p))
                    = resolverOfClaim(importsOf(p)[k].path, aliases, root, dirname(p))

\* Relocation inputs: the same project kept under two root directories, one
\* of which has the name of a business directory; the analysis runs on one
\* of the two copies.
otherRoot == IF root = RepoRoot THEN AppRoot ELSE RepoRoot

LocLines == {ImportLine(UiKitSpec), ImportLine(LibSpec), ImportLine(RelBSpec),
             ImportLine(ReactSpec), FetchLine}

LocInit ==
    /\ root \in {RepoRoot, AppRoot}
    /\ tsconfigJson \in {NoTsconfig, NextTsconfig}
    /\ config = [purity |-> PURITY_CONFIG(TRUE)]
    /\ \E a \in present(Texts(LocLines, MaxLines)),
          b \in {<<>>, <<(<<ImportLine(LibSpec)>>)>>, <<(<<ImportLine(UiKitSpec)>>)>>} :
          files = mapOf(root, a, b, <<>>)
    /\ disk = keysOf(files) \cup keysOf([i \in 1..Len(files) |->
                  [path |-> otherRoot \o slice(files[i].path, Len(root)),
                   content |-> files[i].content]])
    /\ aliases = EmptyTsConfig
    /\ reports = emptyReports
    /\ idx = 1
    /\ pc = "start"
    /\ seen = {}
    /\ pending = <<>>
    /\ reasons = <<>>
    /\ scanDir = root
    /\ blReports = emptyReports
    /\ blIdx = 1
    /\ blPc = "start"

LocSpec == LocInit /\ [][Next]_vars

\* A path of the project, in the copy under the other root.
relocate(path) == otherRoot \o slice(path, Len(root))

relocated(fileContents) ==
    [i \in 1..Len(fileContents) |->
        [path |-> relocate(fileContents[i].path), content |-> fileContents[i].content]]

\* A report with the resolved paths of its reasons taken relative to the
\* project root, so that reports of two copies can be compared.
portable(report, projectRoot) ==
    [report EXCEPT !.reasons =
        [i \in 1..Len(report.reasons) |->
            [report.reasons[i] EXCEPT !.resolvedPath =
                IF @ = <<>> THEN <<>> ELSE relative(projectRoot, @)]]]

\* The report of the copy of filePath under the other root, <<>> for none.
reportMoved(filePath) ==
    analyzeFile(relocate(filePath), relOf(filePath), relocated(files), otherRoot,
                loadTsConfig(tsconfigJson), config.purity)

\* C26, as claimed: the report of a file is, resolved paths taken relative
\* to the root, the report the same file has when the project is kept under
\* another root directory.
C26_LocationIndependent ==
    \A p \in loaded :
        hasReport(p) =>
            /\ reportMoved(p) # <<>>
            /\ portable(reportMoved(p)[1], otherRoot) = portable(reportOf(p), root)

\* C27, as claimed: when analyzeImportBoundaries returns, every key of the
\* content mapping whose relative path is under a uiCandidateDirs entry has
\* a report, a file with empty text included.
C27_EveryCandidateReported ==
    (pc = "done" /\ config.purity.enabled) =>
        \A p \in loaded : isUiCandidate(relOf(p), config.purity) => hasReport(p)

\* Sibling inputs: a file in a directory whose name begins with the name of
\* the candidate directory, beside a file of the candidate directory.
RelLegacy == <<"c", "o", "m", "p", "o", "n", "e", "n", "t", "s", "-", "l", "e", "g", "a", "c", "y", "/", "x", ".", "t", "s", "x">>

SiblingLines == {ImportLine(LibSpec), ImportLine(ReactSpec), FetchLine}

SiblingInit ==
    /\ root = RepoRoot
    /\ tsconfigJson \in {NoTsconfig, NextTsconfig}
    /\ config = [purity |-> PURITY_CONFIG(TRUE)]
    /\ \E x \in Texts(SiblingLines, MaxLines) \ {<<>>}, a \in BOOLEAN :
          files = (IF a THEN <<[path |-> absPath(root, RelA),
                                content |-> <<ImportLine(ReactSpec)>>]>> ELSE <<>>)
                  \o <<[path |-> absPath(root, RelLegacy), content |-> x]>>
    /\ disk = keysOf(files)
    /\ aliases = EmptyTsConfig
    /\ reports = emptyReports
    /\ idx = 1
    /\ pc = "start"
    /\ seen = {}
    /\ pending = <<>>
    /\ reasons = <<>>
    /\ scanDir = root
    /\ blReports = emptyReports
    /\ blIdx = 1
    /\ blPc = "start"

SiblingSpec == SiblingInit /\ [][Next]_vars

\* The relative path lies in the directory D or below it.
inDirectory(relativePath, D) ==
    startsWith(relativePath, IF endsWith(D, <<"/">>) THEN D ELSE D \o <<"/">>)

\* C29, as claimed: a file has a purity report only if its relative path
\* starts with a uiCandidateDirs entry followed by '/'.
C29_SegmentBoundary ==
    \A p \in loaded :
        hasReport(p) =>
            \E i \in 1..Len(config.purity.uiCandidateDirs) :
                inDirectory(relOf(p), config.purity.uiCandidateDirs[i])

\* The largest amount by which one risk input is raised in the comparison.
MaxRaise == 3

\* safe < careful < page-level
tierRank(riskLevel) ==
    CASE riskLevel = "safe" -> 0
      [] riskLevel = "careful" -> 1
      [] riskLevel = "page-level" -> 2

\* The risk inputs behind the report of file p.
riskInputsOf(p) ==
    [signals |-> blReportOf(p).businessLogicSignals,
     native |-> blReportOf(p).nativeHtmlElements.total,
     lines |-> fileLinesOf(mapGet(files, p))]

\* The inputs with one of them raised: a count by 1..MaxRaise, a flag
\* switched on.
raisedFrom(in) ==
    {[in EXCEPT !.signals.apiCalls = @ + d] : d \in 1..MaxRaise}
    \cup {[in EXCEPT !.signals.useStateCount = @ + d] : d \in 1..MaxRaise}
    \cup {[in EXCEPT !.signals.useEffectCount = @ + d] : d \in 1..MaxRaise}
    \cup {[in EXCEPT !.native = @ + d] : d \in 1..MaxRaise}
    \cup {[in EXCEPT !.lines = @ + d] : d \in 1..MaxRaise}
    \cup {[in EXCEPT !.signals.fileUploads = TRUE],
          [in EXCEPT !.signals.authFlows = TRUE],
          [in EXCEPT !.signals.formHandling = TRUE]}

\* C30: the tier and score of a report are those assessRisk gives for the
\* file's risk inputs; with one input raised and the thresholds kept,
\* assessRisk gives a tier that is not lower and a score that is not lower;
\* and the tier decided on the clamped score is the tier of the report.
C30_RiskMonotone ==
    \A p \in loaded :
        hasBlReport(p) =>
            LET in == riskInputsOf(p)
                now == blReportOf(p).complexity
            IN  /\ now = assessRisk(in.signals, in.native, in.lines, riskThresholds)
                /\ \A up \in raisedFrom(in) :
                      LET then == assessRisk(up.signals, up.native, up.lines, riskThresholds)
                      IN  /\ tierRank(then.riskLevel) >= tierRank(now.riskLevel)
                          /\ then.score >= now.score
                /\ now.riskLevel = riskLevelOf(in.signals, in.native, now.score, riskThresholds)
                /\ \A up \in raisedFrom(in) :
                      riskLevelOf(up.signals, up.native,
                                  clampRisk(riskPoints(up.signals, up.native, up.lines)),
                                  riskThresholds)
                          = assessRisk(up.signals, up.native, up.lines, riskThresholds).riskLevel

\* analyzeBusinessLogic has returned: one report has a sum above 100,
\* reported as 100 and page-level, and the other is that of a file of 300
\* lines, whose score one more line raises while its tier stays.
C30_Witness ==
    /\ blPc = "done"
    /\ \E p \in loaded, q \in loaded :
        /\ hasBlReport(p) /\ hasBlReport(q)
        /\ riskSum(p) > MaxRiskScore
        /\ blReportOf(p).complexity.score = MaxRiskScore
        /\ blReportOf(p).complexity.riskLevel = "page-level"
        /\ riskInputsOf(q).lines = LargeFileLines
        /\ LET in == riskInputsOf(q)
               then == assessRisk(in.signals, in.native, in.lines + 1, riskThresholds)
           IN  /\ then.score > blReportOf(q).complexity.score
               /\ then.riskLevel = blReportOf(q).complexity.riskLevel
====
